---- MODULE Spec2Model ----
(***************************************************************************)
(* Transfer and queue-submission core of wgpu-core:                        *)
(*   wgpu-core/src/command/transfer.rs  (geometry validators, the four     *)
(*                                       copy-recording operations)        *)
(*   wgpu-core/src/device/queue.rs      (pending writes, write_buffer,     *)
(*                                       write_texture, queue_submit)      *)
(*                                                                         *)
(* Integer types.  TLC evaluates integers in 32 bits, so the Rust types    *)
(* u32 and BufferAddress (u64) are modelled as words of WordBits and       *)
(* 2 * WordBits bits: every `+` and `*` of the source is reduced modulo    *)
(* the word (what a release build does), and a build with overflow checks  *)
(* (overflow_checks = TRUE) panics where the exact result does not fit.    *)
(***************************************************************************)
EXTENDS Integers, Sequences, FiniteSets, TLC

VARIABLES
    overflow_checks,  \* build profile: TRUE = arithmetic overflow panics, FALSE = it wraps
    call,             \* the operation being / last executed, with its arguments
    ret,              \* its result
    hal_calls,        \* the backend (hal) calls the operation made
    buffers,          \* hub.buffers
    textures,         \* hub.textures
    command_buffers,  \* hub.command_buffers
    device,           \* the device: submission index, trackers, pending writes
    queue,            \* the backend queue: the submissions it took
    threads           \* the calling threads: the operation each is in and the locks it holds

vars == <<overflow_checks, call, ret, hal_calls, buffers, textures, command_buffers, device,
          queue, threads>>

world == <<hal_calls, buffers, textures, command_buffers, device, queue>>

(***************************************************************************)
(* Bounds of the model.                                                    *)
(***************************************************************************)
WordBits == 10
MaxCopyDepth == 5
MaxMipLevel == 4
MaxLayers == 2
MaxThreads == 2
MaxOperand == 40
MaxRanges == 4
MaxPoint == 4

U32Mod == 2 ^ WordBits
U64Mod == 2 ^ (2 * WordBits)

(***************************************************************************)
(* Machine arithmetic.                                                     *)
(***************************************************************************)
Add64(a, b) == (a + b) % U64Mod
Mul64(a, b) == (a * b) % U64Mod
Add32(a, b) == (a + b) % U32Mod
Mul32(a, b) == (a * b) % U32Mod
Min(a, b) == IF a <= b THEN a ELSE b

\* Option<NonZeroU32>: the niche value 0 is None.
NoneNZ == 0
IsSome(x) == x # NoneNZ

(***************************************************************************)
(* Results.  Every result has the same shape so that results compare.      *)
(***************************************************************************)
NoVal == [none |-> TRUE]
Ok(v) == [ok |-> TRUE, kind |-> "Ok", info |-> NoVal, val |-> v]
ErrI(k, i) == [ok |-> FALSE, kind |-> k, info |-> i, val |-> NoVal]
Err(k) == ErrI(k, NoVal)
Panic == Err("Panic")
Pending == Err("Pending")

(***************************************************************************)
(* wgt constants.                                                          *)
(***************************************************************************)
COPY_BUFFER_ALIGNMENT == 4
COPY_BYTES_PER_ROW_ALIGNMENT == 256

(***************************************************************************)
(* Texture formats: block dimensions in texels, bytes per block, aspects.  *)
(***************************************************************************)

describe(format) ==
    CASE format = "R8Unorm"             -> [block_dimensions |-> <<1, 1>>, block_size |-> 1]
      [] format = "Rgba8Unorm"          -> [block_dimensions |-> <<1, 1>>, block_size |-> 4]
      [] format = "Bc1RgbaUnorm"        -> [block_dimensions |-> <<4, 4>>, block_size |-> 8]
      [] format = "Depth32Float"        -> [block_dimensions |-> <<1, 1>>, block_size |-> 4]
      [] format = "Depth24PlusStencil8" -> [block_dimensions |-> <<1, 1>>, block_size |-> 4]

(***************************************************************************)
(* validate_linear_texture_data (transfer.rs 151-238).                     *)
(***************************************************************************)

\* transfer.rs 175-182: bytes_per_row is absent although more than one row is copied.
MissingBytesPerRow_NoDepth(layout, copy_depth, height_in_blocks) ==
    /\ ~IsSome(layout.bytes_per_row)
    /\ height_in_blocks > 1

MissingBytesPerRow(layout, copy_depth, height_in_blocks) ==
    /\ ~IsSome(layout.bytes_per_row)
    /\ (copy_depth > 1 \/ height_in_blocks > 1)

\* transfer.rs 175-182: the resolved bytes_per_row.
ResolveBytesPerRow(layout, bytes_per_block, width_in_blocks) ==
    IF IsSome(layout.bytes_per_row)
    THEN layout.bytes_per_row
    ELSE Mul64(bytes_per_block, width_in_blocks)

\* transfer.rs 183-190: rows_per_image is absent although more than one image is copied.
MissingRowsPerImage_Never(layout, copy_depth) == FALSE

MissingRowsPerImage(layout, copy_depth) ==
    /\ ~IsSome(layout.rows_per_image)
    /\ copy_depth > 1

\* transfer.rs 183-190: the resolved block_rows_per_image.
ResolveRowsPerImage(layout, copy_height, block_height) ==
    IF IsSome(layout.rows_per_image)
    THEN layout.rows_per_image
    ELSE copy_height \div block_height

\* transfer.rs 200-209: the row-alignment check of buffer<->texture copies.
RowAlignmentViolated_BlockOnly(need_copy_aligned_rows, bytes_per_row, bytes_per_block) ==
    /\ need_copy_aligned_rows
    /\ COPY_BYTES_PER_ROW_ALIGNMENT % bytes_per_block # 0

RowAlignmentViolated(need_copy_aligned_rows, bytes_per_row, bytes_per_block) ==
    /\ need_copy_aligned_rows
    /\ \/ COPY_BYTES_PER_ROW_ALIGNMENT % bytes_per_block # 0
       \/ bytes_per_row % COPY_BYTES_PER_ROW_ALIGNMENT # 0

\* transfer.rs 211-218: the exact (unreduced) values of each step, in the
\* order the code computes them; a step's operands are the reduced results
\* of the steps before it.
RequiredBytesSteps(bytes_per_row, block_rows_per_image, block_size, width_in_blocks, height_in_blocks, copy_depth) ==
    LET bytes_in_last_row == block_size * width_in_blocks
        bytes_per_image == bytes_per_row * block_rows_per_image
        rows_mul == bytes_per_row * (height_in_blocks - 1)
        bytes_in_last_slice == (rows_mul % U64Mod) + (bytes_in_last_row % U64Mod)
        images_mul == (bytes_per_image % U64Mod) * (copy_depth - 1)
        total == (images_mul % U64Mod) + (bytes_in_last_slice % U64Mod)
    IN  [bytes_in_last_row |-> bytes_in_last_row, bytes_per_image |-> bytes_per_image,
         rows_mul |-> rows_mul, bytes_in_last_slice |-> bytes_in_last_slice,
         images_mul |-> images_mul, total |-> total]

RequiredBytesInCopy_FullRows(copy_size, bytes_per_row, block_rows_per_image, block_size, width_in_blocks, height_in_blocks) ==
    IF copy_size.width = 0 \/ copy_size.height = 0 \/ copy_size.depth_or_array_layers = 0
    THEN 0
    ELSE Add64(Mul64(Mul64(bytes_per_row, block_rows_per_image),
                     copy_size.depth_or_array_layers - 1),
               Add64(Mul64(bytes_per_row, height_in_blocks),
                     Mul64(block_size, width_in_blocks)))

\* transfer.rs 213-218: required_bytes_in_copy.
RequiredBytesInCopy(copy_size, bytes_per_row, block_rows_per_image, block_size, width_in_blocks, height_in_blocks) ==
    IF copy_size.width = 0 \/ copy_size.height = 0 \/ copy_size.depth_or_array_layers = 0
    THEN 0
    ELSE RequiredBytesSteps(bytes_per_row, block_rows_per_image, block_size,
                            width_in_blocks, height_in_blocks,
                            copy_size.depth_or_array_layers).total % U64Mod

\* transfer.rs 211-218: some step of the computation does not fit the word.
RequiredBytesOverflows(copy_size, bytes_per_row, block_rows_per_image, block_size, width_in_blocks, height_in_blocks) ==
    LET s == RequiredBytesSteps(bytes_per_row, block_rows_per_image, block_size,
                                width_in_blocks, height_in_blocks,
                                copy_size.depth_or_array_layers)
        zero == copy_size.width = 0 \/ copy_size.height = 0
                \/ copy_size.depth_or_array_layers = 0
    IN  \/ s.bytes_in_last_row >= U64Mod
        \/ s.bytes_per_image >= U64Mod
        \/ /\ ~zero
           /\ \/ s.rows_mul >= U64Mod
              \/ s.bytes_in_last_slice >= U64Mod
              \/ s.images_mul >= U64Mod
              \/ s.total >= U64Mod

validate_linear_texture_data(layout, format, buffer_size, buffer_side, bytes_per_block, copy_size, need_copy_aligned_rows) ==
    LET copy_width == copy_size.width
        copy_height == copy_size.height
        copy_depth == copy_size.depth_or_array_layers
        offset == layout.offset
        block_width == describe(format).block_dimensions[1]
        block_height == describe(format).block_dimensions[2]
        block_size == bytes_per_block
        width_in_blocks == copy_width \div block_width
        height_in_blocks == copy_height \div block_height
        bytes_per_row == ResolveBytesPerRow(layout, bytes_per_block, width_in_blocks)
        block_rows_per_image == ResolveRowsPerImage(layout, copy_height, block_height)
        rows_per_image == Mul64(block_rows_per_image, block_height)
        bytes_in_last_row == Mul64(block_size, width_in_blocks)
        bytes_per_image == Mul64(bytes_per_row, block_rows_per_image)
        required_bytes_in_copy ==
            RequiredBytesInCopy(copy_size, bytes_per_row, block_rows_per_image, block_size,
                                width_in_blocks, height_in_blocks)
        end_offset == offset + required_bytes_in_copy
    IN  IF MissingBytesPerRow(layout, copy_depth, height_in_blocks)
            THEN Err("UnspecifiedBytesPerRow")
        ELSE IF MissingRowsPerImage(layout, copy_depth)
            THEN Err("UnspecifiedRowsPerImage")
        ELSE IF overflow_checks /\ block_rows_per_image * block_height >= U64Mod
            THEN Panic
        ELSE IF copy_width % block_width # 0
            THEN Err("UnalignedCopyWidth")
        ELSE IF copy_height % block_height # 0
            THEN Err("UnalignedCopyHeight")
        ELSE IF RowAlignmentViolated(need_copy_aligned_rows, bytes_per_row, bytes_per_block)
            THEN Err("UnalignedBytesPerRow")
        ELSE IF overflow_checks
                /\ RequiredBytesOverflows(copy_size, bytes_per_row, block_rows_per_image,
                                          block_size, width_in_blocks, height_in_blocks)
            THEN Panic
        ELSE IF rows_per_image < copy_height
            THEN Err("InvalidRowsPerImage")
        ELSE IF overflow_checks /\ end_offset >= U64Mod
            THEN Panic
        ELSE IF end_offset % U64Mod > buffer_size
            THEN ErrI("BufferOverrun",
                      [start_offset |-> offset, end_offset |-> end_offset % U64Mod,
                       buffer_size |-> buffer_size, side |-> buffer_side])
        ELSE IF offset % block_size # 0
            THEN ErrI("UnalignedBufferOffset", [offset |-> offset])
        ELSE IF copy_height > 1 /\ bytes_per_row < bytes_in_last_row
            THEN Err("InvalidBytesPerRow")
        ELSE Ok([required_bytes |-> required_bytes_in_copy,
                 bytes_per_image |-> bytes_per_image])

(***************************************************************************)
(* wgt::TextureDescriptor::mip_level_size and Extent3d::physical_size.     *)
(***************************************************************************)
Max(a, b) == IF a >= b THEN a ELSE b

\* The virtual extent of a mip level; NoExtent when the level does not exist.
NoExtent == [width |-> 0, height |-> 0, depth_or_array_layers |-> 0]

mip_level_size(desc, level) ==
    IF level >= desc.mip_level_count
    THEN NoExtent
    ELSE [width |-> Max(1, desc.size.width \div (2 ^ level)),
          height |-> Max(1, desc.size.height \div (2 ^ level)),
          depth_or_array_layers |->
              IF desc.dimension = "D3"
              THEN Max(1, desc.size.depth_or_array_layers \div (2 ^ level))
              ELSE desc.size.depth_or_array_layers]

\* The physical extent: the virtual one rounded up to whole blocks.
physical_size(extent, format) ==
    LET block_width == describe(format).block_dimensions[1]
        block_height == describe(format).block_dimensions[2]
    IN  [width |-> ((extent.width + block_width - 1) \div block_width) * block_width,
         height |-> ((extent.height + block_height - 1) \div block_height) * block_height,
         depth_or_array_layers |-> extent.depth_or_array_layers]

(***************************************************************************)
(* validate_texture_copy_range (transfer.rs 242-327).                      *)
(***************************************************************************)

\* transfer.rs 261, 271, 281: the end of the copy on one axis, a u32 sum.
CopyMax_Saturating(origin, size) == Min(origin + size, U32Mod - 1)

CopyMax(origin, size) == Add32(origin, size)

\* transfer.rs 321-325: the extent handed to the backend.
CopyExtent_Unclamped(copy_size, extent_virtual, depth) ==
    [width |-> copy_size.width, height |-> copy_size.width, depth |-> depth]

CopyExtent(copy_size, extent_virtual, depth) ==
    [width |-> Min(copy_size.width, extent_virtual.width),
     height |-> Min(copy_size.width, extent_virtual.height),
     depth |-> depth]

\* Every texture taken for a layered one.
DepthAndLayers_Layered(desc, copy_size, extent_virtual) ==
    <<1, copy_size.depth_or_array_layers>>

\* transfer.rs 305-315: (depth, array_layer_count) by texture dimension.
DepthAndLayers(desc, copy_size, extent_virtual) ==
    IF desc.dimension = "D3"
    THEN <<Min(copy_size.depth_or_array_layers, extent_virtual.depth_or_array_layers), 1>>
    ELSE <<1, copy_size.depth_or_array_layers>>

TextureOverrun(start, end, size, dimension, side) ==
    ErrI("TextureOverrun", [start_offset |-> start, end_offset |-> end,
                            texture_size |-> size, dimension |-> dimension, side |-> side])

validate_texture_copy_range(texture_copy_view, desc, texture_side, copy_size) ==
    LET block_width == describe(desc.format).block_dimensions[1]
        block_height == describe(desc.format).block_dimensions[2]
        extent_virtual == mip_level_size(desc, texture_copy_view.mip_level)
        extent == physical_size(extent_virtual, desc.format)
        origin == texture_copy_view.origin
        x_copy_max == CopyMax(origin.x, copy_size.width)
        y_copy_max == CopyMax(origin.y, copy_size.height)
        z_copy_max == CopyMax(origin.z, copy_size.depth_or_array_layers)
        dl == DepthAndLayers(desc, copy_size, extent_virtual)
    IN  IF texture_copy_view.mip_level >= desc.mip_level_count
            THEN ErrI("InvalidTextureMipLevel",
                      [level |-> texture_copy_view.mip_level, total |-> desc.mip_level_count])
        ELSE IF overflow_checks /\ origin.x + copy_size.width >= U32Mod
            THEN Panic
        ELSE IF x_copy_max > extent.width
            THEN TextureOverrun(origin.x, x_copy_max, extent.width, "X", texture_side)
        ELSE IF overflow_checks /\ origin.y + copy_size.height >= U32Mod
            THEN Panic
        ELSE IF y_copy_max > extent.height
            THEN TextureOverrun(origin.y, y_copy_max, extent.height, "Y", texture_side)
        ELSE IF overflow_checks /\ origin.z + copy_size.depth_or_array_layers >= U32Mod
            THEN Panic
        ELSE IF z_copy_max > extent.depth_or_array_layers
            THEN TextureOverrun(origin.z, z_copy_max, extent.depth_or_array_layers, "Z",
                                texture_side)
        ELSE IF origin.x % block_width # 0
            THEN Err("UnalignedCopyOriginX")
        ELSE IF origin.y % block_height # 0
            THEN Err("UnalignedCopyOriginY")
        ELSE IF copy_size.width % block_width # 0
            THEN Err("UnalignedCopyWidth")
        ELSE IF copy_size.height % block_height # 0
            THEN Err("UnalignedCopyHeight")
        ELSE Ok([copy_extent |-> CopyExtent(copy_size, extent_virtual, dl[1]),
                 array_layer_count |-> dl[2]])

Extent(w, h, d) == [width |-> w, height |-> h, depth_or_array_layers |-> d]

Desc(format, dimension, size, mips, usage) ==
    [format |-> format, dimension |-> dimension, size |-> size,
     mip_level_count |-> mips, usage |-> usage]

(***************************************************************************)
(* The hub: the stores of buffers, textures and command buffers.           *)
(***************************************************************************)
BufferIds == {"B0", "B1", "B2"}
TextureIds == {"T0", "T1"}
CommandBufferIds == {"E0", "E1"}

\* Ids that no store holds (Storage::get fails on them).
InvalidBufferId == "BX"
InvalidTextureId == "TX"
InvalidCommandBufferId == "EX"

Buffer(size, usage) ==
    [size |-> size, usage |-> usage, raw |-> TRUE, submission_index |-> 0,
     initialization_status |-> <<<<0, size>>>>]

Texture(desc) == [desc |-> desc, raw |-> TRUE, submission_index |-> 0]

InitBuffers ==
    [b \in BufferIds |->
        CASE b = "B0" -> Buffer(512, {"COPY_SRC", "COPY_DST"})
          [] b = "B1" -> Buffer(16, {"COPY_DST"})
          [] OTHER    -> Buffer(16, {"COPY_SRC", "COPY_DST"})]

InitTextures ==
    [t \in TextureIds |->
        IF t = "T0"
        THEN Texture(Desc("Rgba8Unorm", "D2", Extent(16, 16, 2), 1, {"COPY_SRC", "COPY_DST"}))
        ELSE Texture(Desc("Depth24PlusStencil8", "D2", Extent(16, 16, 1), 1,
                          {"COPY_SRC", "COPY_DST"}))]

\* hal::FormatAspects::from(TextureFormat) and ::from(TextureAspect).
FormatAspects(format) ==
    CASE format = "Depth32Float" -> {"DEPTH"}
      [] format = "Depth24PlusStencil8" -> {"DEPTH", "STENCIL"}
      [] OTHER -> {"COLOR"}

AspectMask(aspect) ==
    CASE aspect = "DepthOnly" -> {"DEPTH"}
      [] aspect = "StencilOnly" -> {"STENCIL"}
      [] OTHER -> {"COLOR", "DEPTH", "STENCIL"}

\* conv::is_valid_copy_src_texture_format / is_valid_copy_dst_texture_format.
is_valid_copy_src_texture_format(format) == format # "Depth24PlusStencil8"

is_valid_copy_dst_texture_format(format) == format # "Depth24PlusStencil8"

(***************************************************************************)
(* Resource-state trackers (track::ResourceTracker).  A unit holds the     *)
(* usage the stream starts the resource in (first) and the current one     *)
(* (last); an untracked resource is in the empty usage.                    *)
(***************************************************************************)
Untracked == [first |-> "NONE", last |-> "EMPTY"]

\* ResourceState::change: the unit after the use and the pending transition
\* (a transition is pending when the usage differs from the current one).
Change(unit, usage) ==
    IF unit.last # usage
    THEN [unit |-> [first |-> IF unit.first = "NONE" THEN usage ELSE unit.first,
                    last |-> usage],
          pending |-> <<[from |-> unit.last, to |-> usage]>>]
    ELSE [unit |-> unit, pending |-> <<>>]

\* The sub-resources (mip level, array layer) of a texture, in order.
Subresources(desc) ==
    LET layers == IF desc.dimension = "D3" THEN 1 ELSE desc.size.depth_or_array_layers
    IN  [i \in 1 .. (desc.mip_level_count * layers) |->
            <<(i - 1) \div layers, (i - 1) % layers>>]

InSelector(sub, selector) ==
    /\ selector.levels[1] <= sub[1] /\ sub[1] < selector.levels[2]
    /\ selector.layers[1] <= sub[2] /\ sub[2] < selector.layers[2]

EmptyTrackers ==
    [buffers |-> [b \in BufferIds |-> Untracked],
     textures |-> [t \in TextureIds |->
                      [i \in DOMAIN Subresources(InitTextures[t].desc) |-> Untracked]]]

\* trackers.buffers.use_replace(.., id, (), usage): the tracker afterwards.
BufferUseReplace(trackers, id, usage) ==
    [trackers EXCEPT !.buffers[id] = Change(@, usage).unit]

\* ... and the barriers it yields (into_hal).
BufferPending(trackers, id, usage) ==
    LET p == Change(trackers.buffers[id], usage).pending
    IN  [i \in DOMAIN p |-> [id |-> id, sub |-> <<0, 0>>, from |-> p[i].from, to |-> p[i].to]]

\* trackers.textures.use_replace(.., id, selector, usage).
TextureUseReplace(trackers, id, selector, usage) ==
    LET subs == Subresources(textures[id].desc)
    IN  [trackers EXCEPT !.textures[id] =
            [i \in DOMAIN subs |->
                IF InSelector(subs[i], selector) THEN Change(@[i], usage).unit ELSE @[i]]]

TexturePending(trackers, id, selector, usage) ==
    LET subs == Subresources(textures[id].desc)
        hit == SelectSeq([i \in DOMAIN subs |-> i],
                         LAMBDA i: /\ InSelector(subs[i], selector)
                                   /\ Change(trackers.textures[id][i], usage).pending # <<>>)
    IN  [k \in DOMAIN hit |->
            [id |-> id, sub |-> subs[hit[k]],
             from |-> trackers.textures[id][hit[k]].last, to |-> usage]]

(***************************************************************************)
(* Memory-initialization tracker.                                          *)
(***************************************************************************)
\* check(range): the sub-ranges of start..end that are still uninitialized.
MemoryInitCheck(uninit, start, end) ==
    LET hits == SelectSeq(uninit, LAMBDA r: r[1] < end /\ start < r[2])
    IN  [i \in DOMAIN hits |-> <<Max(hits[i][1], start), Min(hits[i][2], end)>>]

\* The tracker that forgets to remove the range.
MemoryInitRemove_Keep(uninit, start, end) == uninit

\* The uninitialized ranges left after start..end is removed (clear, drain).
MemoryInitRemove(uninit, start, end) ==
    LET RECURSIVE cut(_)
        cut(s) ==
            IF s = <<>> THEN <<>>
            ELSE LET r == Head(s)
                     left == IF r[1] < Min(r[2], start) THEN <<<<r[1], Min(r[2], start)>>>>
                             ELSE <<>>
                     right == IF Max(r[1], end) < r[2] THEN <<<<Max(r[1], end), r[2]>>>>
                              ELSE <<>>
                 IN  (IF start < end THEN left \o right ELSE <<r>>) \o cut(Tail(s))
    IN  cut(uninit)

\* One action for the whole range, initialized or not.
InitActions_Whole(id, start, end, kind) == <<[id |-> id, range |-> <<start, end>>, kind |-> kind]>>

\* buffer.initialization_status.check(range).map(|range| action).
InitActions(id, start, end, kind) ==
    LET found == MemoryInitCheck(buffers[id].initialization_status, start, end)
    IN  [i \in DOMAIN found |-> [id |-> id, range |-> found[i], kind |-> kind]]

(***************************************************************************)
(* Command buffers (command::CommandBuffer) and the backend encoder.       *)
(***************************************************************************)
\* One call of the backend (hal) interface.
HalCall(cmd, src, dst, items) == [cmd |-> cmd, src |-> src, dst |-> dst, items |-> items]

CommandBuffer(status) ==
    [status |-> status, is_open |-> FALSE, commands |-> <<>>, list |-> <<>>,
     trackers |-> EmptyTrackers, buffer_memory_init_actions |-> <<>>]

\* CommandBuffer::get_encoder_mut: the command buffer must exist and be recording.
get_encoder_mut(id) ==
    IF id \notin CommandBufferIds \/ command_buffers[id].status \in {"Vacant", "Error"}
    THEN ErrI("CommandEncoderError", [error |-> "Invalid"])
    ELSE IF command_buffers[id].status = "Finished"
        THEN ErrI("CommandEncoderError", [error |-> "NotRecording"])
    ELSE Ok(NoVal)

\* cmd_buf.encoder.open() followed by the calls: encoding begins on first use.
Record(cmd_buf, calls) ==
    LET begin == IF cmd_buf.is_open THEN <<>>
                 ELSE <<HalCall("begin_encoding", "", "", <<>>)>>
    IN  [cmd_buf EXCEPT !.is_open = TRUE, !.commands = @ \o begin \o calls]

\* The backend calls an operation makes on the way (begin_encoding included).
Recorded(cmd_buf, calls) ==
    (IF cmd_buf.is_open THEN <<>> ELSE <<HalCall("begin_encoding", "", "", <<>>)>>) \o calls

\* What an operation leaves behind: the command buffer, the result, the calls.
Outcome(cmd_buf, result, calls) == [cmd_buf |-> cmd_buf, ret |-> result, hal |-> calls]


(***************************************************************************)
(* The device (device::Device) and the backend queue.                      *)
(***************************************************************************)
PendingWrites ==
    [is_active |-> FALSE, commands |-> <<>>, temp_resources |-> <<>>,
     dst_buffers |-> {}, dst_textures |-> {}, executing_command_buffers |-> <<>>]

InitDevice ==
    [active_submission_index |-> 0,
     trackers |-> EmptyTrackers,
     pending_writes |-> PendingWrites,
     alignments |-> [buffer_copy_pitch |-> 16],
     staging_buffers |-> 0,
     life_tracker |-> <<>>]

\* The backend queue: how many submissions it took, and the value the last
\* one signals the fence with.
InitQueue == [submissions |-> 0, fence_value |-> 0]

\* The state after construction: nothing recorded, nothing submitted.
InitWorld ==
    /\ hal_calls = <<>>
    /\ buffers = InitBuffers
    /\ textures = InitTextures
    /\ command_buffers = [e \in CommandBufferIds |-> CommandBuffer("Recording")]
    /\ device = InitDevice
    /\ queue = InitQueue
    /\ threads = [t \in 1 .. MaxThreads |-> [call |-> [op |-> "none"], pc |-> 0, held |-> {}]]

(***************************************************************************)
(* extract_texture_selector (transfer.rs 104-147).                         *)
(***************************************************************************)
extract_texture_selector(copy_texture, copy_size) ==
    IF copy_texture.texture \notin TextureIds
    THEN ErrI("InvalidTexture", [id |-> copy_texture.texture])
    ELSE
    LET desc == textures[copy_texture.texture].desc
        format == desc.format
        copy_aspect == FormatAspects(format) \cap AspectMask(copy_texture.aspect)
        layered == desc.dimension \in {"D1", "D2"}
        layers == IF layered
                  THEN <<copy_texture.origin.z,
                         Add32(copy_texture.origin.z, copy_size.depth_or_array_layers)>>
                  ELSE <<0, 1>>
        origin_z == IF layered THEN 0 ELSE copy_texture.origin.z
    IN  IF copy_aspect = {}
            THEN ErrI("InvalidTextureAspect", [format |-> format, aspect |-> copy_texture.aspect])
        ELSE IF /\ layered /\ overflow_checks
                /\ copy_texture.origin.z + copy_size.depth_or_array_layers >= U32Mod
            THEN Panic
        ELSE IF overflow_checks /\ copy_texture.mip_level + 1 >= U32Mod
            THEN Panic
        ELSE Ok([selector |-> [levels |-> <<copy_texture.mip_level,
                                            Add32(copy_texture.mip_level, 1)>>,
                               layers |-> layers],
                 base |-> [origin |-> [x |-> copy_texture.origin.x,
                                       y |-> copy_texture.origin.y, z |-> origin_z],
                           array_layer |-> layers[1],
                           mip_level |-> copy_texture.mip_level,
                           aspect |-> copy_aspect],
                 format |-> format])

(***************************************************************************)
(* command_encoder_copy_buffer_to_buffer (transfer.rs 330-464).            *)
(***************************************************************************)
\* transfer.rs 426: the copy is ignored when it moves no bytes.
CopySizeIsZero(size) == size = 0

\* transfer.rs 405-406: the end of the copied range, a BufferAddress sum.
EndOffset(offset, size) == Add64(offset, size)

\* transfer.rs 395: the size is not a multiple of COPY_BUFFER_ALIGNMENT.
UnalignedSize(size) == size % COPY_BUFFER_ALIGNMENT # 0

BufferOverrun(start, end, size, side) ==
    ErrI("BufferOverrun", [start_offset |-> start, end_offset |-> end,
                           buffer_size |-> size, side |-> side])

\* transfer.rs 362-390 and their counterparts in the image copies: the
\* source buffer is put in COPY_SRC (the tracker changes first), then checked.
UseSourceBuffer(cmd_buf, id) ==
    IF id \notin BufferIds
        THEN Outcome(cmd_buf, ErrI("InvalidBuffer", [id |-> id]), <<>>)
    ELSE LET used == [cmd_buf EXCEPT !.trackers = BufferUseReplace(@, id, "COPY_SRC")]
             pending == BufferPending(cmd_buf.trackers, id, "COPY_SRC")
         IN  IF ~buffers[id].raw
                 THEN Outcome(used, ErrI("InvalidBuffer", [id |-> id]), <<>>)
             ELSE IF "COPY_SRC" \notin buffers[id].usage
                 THEN Outcome(used, Err("MissingCopySrcUsageFlag"), <<>>)
             ELSE Outcome(used, Ok(NoVal), pending)

UseDestinationBuffer(cmd_buf, id) ==
    IF id \notin BufferIds
        THEN Outcome(cmd_buf, ErrI("InvalidBuffer", [id |-> id]), <<>>)
    ELSE LET used == [cmd_buf EXCEPT !.trackers = BufferUseReplace(@, id, "COPY_DST")]
             pending == BufferPending(cmd_buf.trackers, id, "COPY_DST")
         IN  IF ~buffers[id].raw
                 THEN Outcome(used, ErrI("InvalidBuffer", [id |-> id]), <<>>)
             ELSE IF "COPY_DST" \notin buffers[id].usage
                 THEN Outcome(used, ErrI("MissingCopyDstUsageFlag",
                                         [buffer |-> id, texture |-> ""]), <<>>)
             ELSE Outcome(used, Ok(NoVal), pending)

\* The copy once both buffers are in place (transfer.rs 395-463).
CopyBufferRegion(cmd_buf, c, src_barrier, dst_barrier) ==
    LET src == buffers[c.source]
        dst == buffers[c.destination]
        size == c.size
        source_end_offset == EndOffset(c.source_offset, size)
        destination_end_offset == EndOffset(c.destination_offset, size)
        actions ==
            InitActions(c.destination, c.destination_offset, destination_end_offset,
                        "ImplicitlyInitialized")
            \o InitActions(c.source, c.source_offset, source_end_offset,
                           "NeedsInitializedMemory")
        region == [src_offset |-> c.source_offset, dst_offset |-> c.destination_offset,
                   size |-> size]
        calls == <<HalCall("transition_buffers", "", "", src_barrier \o dst_barrier),
                   HalCall("copy_buffer_to_buffer", c.source, c.destination, <<region>>)>>
    IN  IF UnalignedSize(size)
            THEN Outcome(cmd_buf, ErrI("UnalignedCopySize", [size |-> size]), <<>>)
        ELSE IF c.source_offset % COPY_BUFFER_ALIGNMENT # 0
            THEN Outcome(cmd_buf, ErrI("UnalignedBufferOffset",
                                       [offset |-> c.source_offset]), <<>>)
        ELSE IF c.destination_offset % COPY_BUFFER_ALIGNMENT # 0
            THEN Outcome(cmd_buf, ErrI("UnalignedBufferOffset",
                                       [offset |-> c.destination_offset]), <<>>)
        ELSE IF overflow_checks /\ (c.source_offset + size >= U64Mod
                                    \/ c.destination_offset + size >= U64Mod)
            THEN Outcome(cmd_buf, Panic, <<>>)
        ELSE IF source_end_offset > src.size
            THEN Outcome(cmd_buf, BufferOverrun(c.source_offset, source_end_offset,
                                                src.size, "Source"), <<>>)
        ELSE IF destination_end_offset > dst.size
            THEN Outcome(cmd_buf, BufferOverrun(c.destination_offset, destination_end_offset,
                                                dst.size, "Destination"), <<>>)
        ELSE IF CopySizeIsZero(size)
            THEN Outcome(cmd_buf, Ok(NoVal), <<>>)
        ELSE Outcome(Record([cmd_buf EXCEPT !.buffer_memory_init_actions = @ \o actions],
                            calls),
                     Ok(NoVal), Recorded(cmd_buf, calls))

command_encoder_copy_buffer_to_buffer(c) ==
    IF c.source = c.destination
        THEN Outcome(NoVal, Err("SameSourceDestinationBuffer"), <<>>)
    ELSE IF ~get_encoder_mut(c.command_encoder_id).ok
        THEN Outcome(NoVal, get_encoder_mut(c.command_encoder_id), <<>>)
    ELSE LET cmd_buf == command_buffers[c.command_encoder_id]
             s == UseSourceBuffer(cmd_buf, c.source)
         IN  IF ~s.ret.ok THEN s
             ELSE LET d == UseDestinationBuffer(s.cmd_buf, c.destination)
                  IN  IF ~d.ret.ok THEN d
                      ELSE CopyBufferRegion(d.cmd_buf, c, s.hal, d.hal)

(***************************************************************************)
(* The image copies (transfer.rs 466-840).                                 *)
(***************************************************************************)
\* The early return on an empty extent left out.
ZeroExtent_Never(copy_size) == FALSE

\* transfer.rs 492, 615, 743; queue.rs 437: a copy of no texels is ignored.
ZeroExtent(copy_size) ==
    copy_size.width = 0 \/ copy_size.height = 0 \/ copy_size.depth_or_array_layers = 0

\* trackers.textures.use_replace, then the checks of the texture.
UseSourceTexture(cmd_buf, id, selector) ==
    LET used == [cmd_buf EXCEPT !.trackers = TextureUseReplace(@, id, selector, "COPY_SRC")]
        pending == TexturePending(cmd_buf.trackers, id, selector, "COPY_SRC")
    IN  IF ~textures[id].raw
            THEN Outcome(used, ErrI("InvalidTexture", [id |-> id]), <<>>)
        ELSE IF "COPY_SRC" \notin textures[id].desc.usage
            THEN Outcome(used, Err("MissingCopySrcUsageFlag"), <<>>)
        ELSE Outcome(used, Ok(NoVal), pending)

UseDestinationTexture(cmd_buf, id, selector) ==
    LET used == [cmd_buf EXCEPT !.trackers = TextureUseReplace(@, id, selector, "COPY_DST")]
        pending == TexturePending(cmd_buf.trackers, id, selector, "COPY_DST")
    IN  IF ~textures[id].raw
            THEN Outcome(used, ErrI("InvalidTexture", [id |-> id]), <<>>)
        ELSE IF "COPY_DST" \notin textures[id].desc.usage
            THEN Outcome(used, ErrI("MissingCopyDstUsageFlag",
                                    [buffer |-> "", texture |-> id]), <<>>)
        ELSE Outcome(used, Ok(NoVal), pending)

\* transfer.rs 569-579, 696-706: one buffer-texture region per array layer.
BufferTextureRegions(layout, texture_base, bytes_per_array_layer, size, array_layer_count) ==
    [i \in 1 .. array_layer_count |->
        [buffer_layout |-> [layout EXCEPT
                               !.offset = Add64(@, Mul64(i - 1, bytes_per_array_layer))],
         texture_base |-> [texture_base EXCEPT !.array_layer = Add32(@, i - 1)],
         size |-> size]]

\* transfer.rs 817-827: one texture-texture region per array layer.
TextureRegions(src_tex_base, dst_tex_base, size, array_layer_count) ==
    [i \in 1 .. array_layer_count |->
        [src_base |-> [src_tex_base EXCEPT !.array_layer = Add32(@, i - 1)],
         dst_base |-> [dst_tex_base EXCEPT !.array_layer = Add32(@, i - 1)],
         size |-> size]]

\* transfer.rs 529-586: the copy once buffer and texture are in place.
CopyToTextureRegions(cmd_buf, c, dst_base, src_barriers, dst_barriers) ==
    LET src == buffers[c.source.buffer]
        desc == textures[c.destination.texture].desc
        range == validate_texture_copy_range(c.destination, desc, "Destination", c.copy_size)
        linear == validate_linear_texture_data(c.source.layout, desc.format, src.size,
                                               "Source", describe(desc.format).block_size,
                                               c.copy_size, TRUE)
        actions == InitActions(c.source.buffer, c.source.layout.offset,
                               Add64(c.source.layout.offset, linear.val.required_bytes),
                               "NeedsInitializedMemory")
        noted == [cmd_buf EXCEPT !.buffer_memory_init_actions = @ \o actions]
        regions == BufferTextureRegions(c.source.layout, dst_base, linear.val.bytes_per_image,
                                        range.val.copy_extent, range.val.array_layer_count)
        calls == <<HalCall("transition_buffers", "", "", src_barriers),
                   HalCall("transition_textures", "", "", dst_barriers),
                   HalCall("copy_buffer_to_texture", c.source.buffer, c.destination.texture,
                           regions)>>
    IN  IF ~range.ok THEN Outcome(cmd_buf, range, <<>>)
        ELSE IF ~linear.ok THEN Outcome(cmd_buf, linear, <<>>)
        ELSE IF ~is_valid_copy_dst_texture_format(desc.format)
            THEN Outcome(noted, ErrI("CopyToForbiddenTextureFormat",
                                     [format |-> desc.format]), <<>>)
        ELSE Outcome(Record(noted, calls), Ok(NoVal), Recorded(cmd_buf, calls))

command_encoder_copy_buffer_to_texture(c) ==
    IF ~get_encoder_mut(c.command_encoder_id).ok
        THEN Outcome(NoVal, get_encoder_mut(c.command_encoder_id), <<>>)
    ELSE LET cmd_buf == command_buffers[c.command_encoder_id]
             dst == extract_texture_selector(c.destination, c.copy_size)
         IN  IF ZeroExtent(c.copy_size) THEN Outcome(cmd_buf, Ok(NoVal), <<>>)
             ELSE IF ~dst.ok THEN Outcome(cmd_buf, dst, <<>>)
             ELSE LET s == UseSourceBuffer(cmd_buf, c.source.buffer)
                  IN  IF ~s.ret.ok THEN s
                      ELSE LET d == UseDestinationTexture(s.cmd_buf, c.destination.texture,
                                                          dst.val.selector)
                           IN  IF ~d.ret.ok THEN d
                               ELSE CopyToTextureRegions(d.cmd_buf, c, dst.val.base,
                                                         s.hal, d.hal)

\* transfer.rs 660-718: the copy once texture and buffer are in place.
CopyToBufferRegions(cmd_buf, c, src_base, src_barriers, dst_barriers) ==
    LET dst == buffers[c.destination.buffer]
        desc == textures[c.source.texture].desc
        range == validate_texture_copy_range(c.source, desc, "Source", c.copy_size)
        linear == validate_linear_texture_data(c.destination.layout, desc.format, dst.size,
                                               "Destination",
                                               describe(desc.format).block_size,
                                               c.copy_size, TRUE)
        actions == InitActions(c.destination.buffer, c.destination.layout.offset,
                               Add64(c.destination.layout.offset, linear.val.required_bytes),
                               "ImplicitlyInitialized")
        noted == [cmd_buf EXCEPT !.buffer_memory_init_actions = @ \o actions]
        regions == BufferTextureRegions(c.destination.layout, src_base,
                                        linear.val.bytes_per_image,
                                        range.val.copy_extent, range.val.array_layer_count)
        calls == <<HalCall("transition_buffers", "", "", dst_barriers),
                   HalCall("transition_textures", "", "", src_barriers),
                   HalCall("copy_texture_to_buffer", c.source.texture, c.destination.buffer,
                           regions)>>
    IN  IF ~range.ok THEN Outcome(cmd_buf, range, <<>>)
        ELSE IF ~linear.ok THEN Outcome(cmd_buf, linear, <<>>)
        ELSE IF ~is_valid_copy_src_texture_format(desc.format)
            THEN Outcome(cmd_buf, ErrI("CopyFromForbiddenTextureFormat",
                                       [format |-> desc.format]), <<>>)
        ELSE Outcome(Record(noted, calls), Ok(NoVal), Recorded(cmd_buf, calls))

command_encoder_copy_texture_to_buffer(c) ==
    IF ~get_encoder_mut(c.command_encoder_id).ok
        THEN Outcome(NoVal, get_encoder_mut(c.command_encoder_id), <<>>)
    ELSE LET cmd_buf == command_buffers[c.command_encoder_id]
             src == extract_texture_selector(c.source, c.copy_size)
         IN  IF ZeroExtent(c.copy_size) THEN Outcome(cmd_buf, Ok(NoVal), <<>>)
             ELSE IF ~src.ok THEN Outcome(cmd_buf, src, <<>>)
             ELSE LET s == UseSourceTexture(cmd_buf, c.source.texture, src.val.selector)
                  IN  IF ~s.ret.ok THEN s
                      ELSE LET d == UseDestinationBuffer(s.cmd_buf, c.destination.buffer)
                           IN  IF ~d.ret.ok THEN d
                               ELSE CopyToBufferRegions(d.cmd_buf, c, src.val.base,
                                                        s.hal, d.hal)

\* transfer.rs 799-839: the copy once both textures are in place.
CopyTextureRegions(cmd_buf, c, src_tex_base, dst_tex_base, barriers) ==
    LET src_range == validate_texture_copy_range(c.source, textures[c.source.texture].desc,
                                                 "Source", c.copy_size)
        dst_range == validate_texture_copy_range(c.destination,
                                                 textures[c.destination.texture].desc,
                                                 "Destination", c.copy_size)
        src_copy_size == src_range.val.copy_extent
        dst_copy_size == dst_range.val.copy_extent
        hal_copy_size == [width |-> Min(src_copy_size.width, dst_copy_size.width),
                          height |-> Min(src_copy_size.height, dst_copy_size.height),
                          depth |-> Min(src_copy_size.depth, dst_copy_size.depth)]
        regions == TextureRegions(src_tex_base, dst_tex_base, hal_copy_size,
                                  src_range.val.array_layer_count)
        calls == <<HalCall("transition_textures", "", "", barriers),
                   HalCall("copy_texture_to_texture", c.source.texture,
                           c.destination.texture, regions)>>
    IN  IF ~src_range.ok THEN Outcome(cmd_buf, src_range, <<>>)
        ELSE IF ~dst_range.ok THEN Outcome(cmd_buf, dst_range, <<>>)
        ELSE Outcome(Record(cmd_buf, calls), Ok(NoVal), Recorded(cmd_buf, calls))

command_encoder_copy_texture_to_texture(c) ==
    IF ~get_encoder_mut(c.command_encoder_id).ok
        THEN Outcome(NoVal, get_encoder_mut(c.command_encoder_id), <<>>)
    ELSE LET cmd_buf == command_buffers[c.command_encoder_id]
             src == extract_texture_selector(c.source, c.copy_size)
             dst == extract_texture_selector(c.destination, c.copy_size)
         IN  IF ZeroExtent(c.copy_size) THEN Outcome(cmd_buf, Ok(NoVal), <<>>)
             ELSE IF ~src.ok THEN Outcome(cmd_buf, src, <<>>)
             ELSE IF ~dst.ok THEN Outcome(cmd_buf, dst, <<>>)
             ELSE IF src.val.base.aspect # dst.val.base.aspect
                 THEN Outcome(cmd_buf, Err("MismatchedAspects"), <<>>)
             ELSE LET s == UseSourceTexture(cmd_buf, c.source.texture, src.val.selector)
                  IN  IF ~s.ret.ok THEN s
                      ELSE LET d == UseDestinationTexture(s.cmd_buf, c.destination.texture,
                                                          dst.val.selector)
                           IN  IF ~d.ret.ok THEN d
                               ELSE CopyTextureRegions(d.cmd_buf, c, src.val.base,
                                                       dst.val.base, s.hal \o d.hal)

(***************************************************************************)
(* The four copy operations as actions on the command-buffer store.        *)
(***************************************************************************)
\* The command buffer and the result an operation leaves behind.
Install(id, outcome) ==
    /\ command_buffers' = IF outcome.cmd_buf = NoVal THEN command_buffers
                          ELSE [command_buffers EXCEPT ![id] = outcome.cmd_buf]
    /\ ret' = outcome.ret
    /\ hal_calls' = outcome.hal

CopyBufferToBuffer(c) ==
    /\ c.op = "copy_buffer_to_buffer"
    /\ Install(c.command_encoder_id, command_encoder_copy_buffer_to_buffer(c))
    /\ UNCHANGED <<threads, overflow_checks, buffers, textures, device, queue>>

CopyBufferToTexture(c) ==
    /\ c.op = "copy_buffer_to_texture"
    /\ Install(c.command_encoder_id, command_encoder_copy_buffer_to_texture(c))
    /\ UNCHANGED <<threads, overflow_checks, buffers, textures, device, queue>>

CopyTextureToBuffer(c) ==
    /\ c.op = "copy_texture_to_buffer"
    /\ Install(c.command_encoder_id, command_encoder_copy_texture_to_buffer(c))
    /\ UNCHANGED <<threads, overflow_checks, buffers, textures, device, queue>>

CopyTextureToTexture(c) ==
    /\ c.op = "copy_texture_to_texture"
    /\ Install(c.command_encoder_id, command_encoder_copy_texture_to_texture(c))
    /\ UNCHANGED <<threads, overflow_checks, buffers, textures, device, queue>>

(***************************************************************************)
(* Specification of one copy operation on the hub after construction, with *)
(* one command encoder finished and one buffer destroyed: Init draws the   *)
(* call, the action runs it.                                               *)
(***************************************************************************)

ImageCopyBuffers ==
    [buffer : {"B0", "B1", InvalidBufferId},
     layout : [offset : {0, 2}, bytes_per_row : {NoneNZ, COPY_BYTES_PER_ROW_ALIGNMENT},
               rows_per_image : {NoneNZ, 1}]]

ImageCopyTextures ==
    [texture : TextureIds \cup {InvalidTextureId}, mip_level : {0, 1},
     origin : [x : {0, 8}, y : {0}, z : {0, 1, U32Mod - 1}],
     aspect : {"All", "DepthOnly"}]

CopyExtents == [width : {0, 1, 16}, height : {0, 1, 2}, depth_or_array_layers : {0, 1, 2}]

\* The calls of the four copy operations.
CopyCalls ==
    [op : {"copy_buffer_to_buffer"},
     command_encoder_id : {"E0", "E1", InvalidCommandBufferId},
     source : BufferIds \cup {InvalidBufferId}, source_offset : {0, 2, 8, U64Mod - 4},
     destination : BufferIds \cup {InvalidBufferId},
     destination_offset : {0, 2, 8, U64Mod - 4},
     size : {0, 4, 6, 8, 512}]
    \cup [op : {"copy_buffer_to_texture"}, command_encoder_id : {"E0", "E1"},
          source : ImageCopyBuffers, destination : ImageCopyTextures,
          copy_size : CopyExtents]
    \cup [op : {"copy_texture_to_buffer"}, command_encoder_id : {"E0", "E1"},
          source : ImageCopyTextures, destination : ImageCopyBuffers,
          copy_size : CopyExtents]
    \cup [op : {"copy_texture_to_texture"}, command_encoder_id : {"E0", "E1"},
          source : ImageCopyTextures,
          destination : {t \in ImageCopyTextures : t.mip_level = 0 /\ t.origin.z < 2},
          copy_size : CopyExtents]

InitCopy ==
    /\ overflow_checks \in BOOLEAN
    /\ call \in CopyCalls
    /\ ret = Pending
    /\ hal_calls = <<>>
    /\ buffers = [InitBuffers EXCEPT !["B2"].raw = FALSE]
    /\ textures = InitTextures
    /\ command_buffers = [e \in CommandBufferIds |->
                             CommandBuffer(IF e = "E0" THEN "Recording" ELSE "Finished")]
    /\ device = InitDevice
    /\ queue = InitQueue
    /\ threads = [t \in 1 .. MaxThreads |-> [call |-> [op |-> "none"], pc |-> 0, held |-> {}]]

NextCopy ==
    \/ ret = Pending /\ CopyBufferToBuffer(call) /\ UNCHANGED call
    \/ ret = Pending /\ CopyBufferToTexture(call) /\ UNCHANGED call
    \/ ret = Pending /\ CopyTextureToBuffer(call) /\ UNCHANGED call
    \/ ret = Pending /\ CopyTextureToTexture(call) /\ UNCHANGED call

SpecCopy == InitCopy /\ [][NextCopy]_vars

(***************************************************************************)
(* Queue helpers (queue.rs 869-896).                                       *)
(***************************************************************************)
\* The remainder of the first step taken for the divisor.
get_greatest_common_divisor_OneStep(a, b) ==
    LET c == a % b
    IN  IF c = 0 THEN b ELSE c

RECURSIVE get_greatest_common_divisor(_, _)
get_greatest_common_divisor(a, b) ==
    LET c == a % b
    IN  IF c = 0 THEN b ELSE get_greatest_common_divisor(b, c)

get_lowest_common_denom(a, b) ==
    LET gcd == IF a >= b THEN get_greatest_common_divisor(a, b)
               ELSE get_greatest_common_divisor(b, a)
    IN  Mul32(a, b) \div gcd

\* The value rounded down instead of up.
align_to_Down(value, alignment) == value - (value % alignment)

align_to(value, alignment) ==
    IF value % alignment = 0 THEN value
    ELSE Add32(value - (value % alignment), alignment)

(***************************************************************************)
(* Pending writes (queue.rs 72-178) and staging (queue.rs 214-224).        *)
(***************************************************************************)
QueueId == "Q0"
InvalidQueueId == "QX"

\* The n-th staging buffer the device created.
Staging(n) == "S" \o ToString(n)

\* activate that begins the encoding and leaves is_active as it was.
Activate_FlagKept(pending_writes, calls) ==
    LET begin == IF pending_writes.is_active THEN <<>>
                 ELSE <<HalCall("begin_encoding", "_PendingWrites", "", <<>>)>>
    IN  [pending_writes EXCEPT !.commands = @ \o begin \o calls]

\* PendingWrites::activate followed by the calls on its encoder.
Activate(pending_writes, calls) ==
    LET begin == IF pending_writes.is_active THEN <<>>
                 ELSE <<HalCall("begin_encoding", "_PendingWrites", "", <<>>)>>
    IN  [pending_writes EXCEPT !.is_active = TRUE, !.commands = @ \o begin \o calls]

Activated(pending_writes, calls) ==
    (IF pending_writes.is_active THEN <<>>
     ELSE <<HalCall("begin_encoding", "_PendingWrites", "", <<>>)>>) \o calls

\* The barrier that takes a staging buffer from MAP_WRITE to COPY_SRC.
StageBarrier(stage) == [id |-> stage, sub |-> <<0, 0>>, from |-> "MAP_WRITE", to |-> "COPY_SRC"]

\* What a queue operation leaves behind.
DeviceOutcome(dev, bufs, texs, result, calls) ==
    [device |-> dev, buffers |-> bufs, textures |-> texs, ret |-> result, hal |-> calls]

DeviceError(error) == ErrI("DeviceError", [error |-> error])

\* queue.rs 360, 502: dst.life_guard.use_at(device.active_submission_index + 1).
NextSubmissionIndex(index) == index + 1

(***************************************************************************)
(* queue_write_buffer (queue.rs 310-408).                                  *)
(***************************************************************************)
\* queue.rs 362-407: the write once the destination is in COPY_DST.
WriteBufferRegion(dev, c, stage, created, transition) ==
    LET dst == buffers[c.buffer_id]
        used == [buffers EXCEPT ![c.buffer_id].submission_index =
                                    NextSubmissionIndex(dev.active_submission_index)]
        end_offset == Add64(c.buffer_offset, c.data_size)
        region == [src_offset |-> 0, dst_offset |-> c.buffer_offset, size |-> c.data_size]
        calls == <<HalCall("transition_buffers", "", "", <<StageBarrier(stage)>> \o transition),
                   HalCall("copy_buffer_to_buffer", stage, c.buffer_id, <<region>>)>>
        written == [dev EXCEPT !.pending_writes =
                       [Activate(@, calls) EXCEPT !.temp_resources = Append(@, stage),
                                                  !.dst_buffers = @ \cup {c.buffer_id}]]
        cleared == [used EXCEPT ![c.buffer_id].initialization_status =
                                   MemoryInitRemove(@, c.buffer_offset, end_offset)]
    IN  IF c.data_size % COPY_BUFFER_ALIGNMENT # 0
            THEN DeviceOutcome(dev, used, textures,
                               ErrI("UnalignedCopySize", [size |-> c.data_size]), created)
        ELSE IF c.buffer_offset % COPY_BUFFER_ALIGNMENT # 0
            THEN DeviceOutcome(dev, used, textures,
                               ErrI("UnalignedBufferOffset", [offset |-> c.buffer_offset]),
                               created)
        ELSE IF overflow_checks /\ c.buffer_offset + c.data_size >= U64Mod
            THEN DeviceOutcome(dev, used, textures, Panic, created)
        ELSE IF end_offset > dst.size
            THEN DeviceOutcome(dev, used, textures,
                               BufferOverrun(c.buffer_offset, end_offset, dst.size,
                                             "Destination"), created)
        ELSE DeviceOutcome(written, cleared, textures, Ok(NoVal),
                           created \o Activated(dev.pending_writes, calls))

queue_write_buffer(c) ==
    IF c.queue_id # QueueId
        THEN DeviceOutcome(device, buffers, textures, DeviceError("Invalid"), <<>>)
    ELSE IF c.data_size = 0
        THEN DeviceOutcome(device, buffers, textures, Ok(NoVal), <<>>)
    ELSE IF c.backend_fault = "create_buffer"
        THEN DeviceOutcome(device, buffers, textures, DeviceError("OutOfMemory"), <<>>)
    ELSE
    LET stage == Staging(device.staging_buffers + 1)
        staged == [device EXCEPT !.staging_buffers = @ + 1]
        created == <<HalCall("create_buffer", stage, "", <<c.data_size>>)>>
        mapped == created \o <<HalCall("map_buffer", stage, "", <<>>),
                               HalCall("unmap_buffer", stage, "", <<>>)>>
    IN  IF c.backend_fault = "map_buffer"
            THEN DeviceOutcome(staged, buffers, textures, DeviceError("Lost"), created)
        ELSE IF c.buffer_id \notin BufferIds
            THEN DeviceOutcome(staged, buffers, textures,
                               ErrI("InvalidBuffer", [id |-> c.buffer_id]), mapped)
        ELSE LET tracked == [staged EXCEPT !.trackers =
                                BufferUseReplace(@, c.buffer_id, "COPY_DST")]
                 transition == BufferPending(device.trackers, c.buffer_id, "COPY_DST")
             IN  IF ~buffers[c.buffer_id].raw
                     THEN DeviceOutcome(tracked, buffers, textures,
                                        ErrI("InvalidBuffer", [id |-> c.buffer_id]), mapped)
                 ELSE IF "COPY_DST" \notin buffers[c.buffer_id].usage
                     THEN DeviceOutcome(tracked, buffers, textures,
                                        ErrI("MissingCopyDstUsageFlag",
                                             [buffer |-> c.buffer_id, texture |-> ""]),
                                        mapped)
                 ELSE WriteBufferRegion(tracked, c, stage, mapped, transition)

(***************************************************************************)
(* queue_write_texture (queue.rs 410-586).                                 *)
(***************************************************************************)
\* queue.rs 461-487: the geometry of the staging buffer.
StageGeometry(c, format) ==
    LET block_size == describe(format).block_size
        block_width == describe(format).block_dimensions[1]
        block_height == describe(format).block_dimensions[2]
        width_blocks == c.size.width \div block_width
        height_blocks == c.size.height \div block_height
        block_rows_per_image == IF IsSome(c.data_layout.rows_per_image)
                                THEN c.data_layout.rows_per_image ELSE c.size.height
        pitch == device.alignments.buffer_copy_pitch
        bytes_per_row_alignment == get_lowest_common_denom(pitch, block_size)
        row_bytes == Mul32(block_size, width_blocks)
        stage_bytes_per_row == IF bytes_per_row_alignment = 0 THEN 0
                               ELSE align_to(row_bytes, bytes_per_row_alignment)
        block_rows_in_copy ==
            Add32(Mul32(c.size.depth_or_array_layers - 1, block_rows_per_image), height_blocks)
    IN  [stage_bytes_per_row |-> stage_bytes_per_row,
         block_rows_per_image |-> block_rows_per_image,
         block_rows_in_copy |-> block_rows_in_copy,
         stage_size |-> Mul64(stage_bytes_per_row, block_rows_in_copy),
         \* queue.rs 892: value % alignment with a wrapped alignment of 0
         zero_alignment |-> bytes_per_row_alignment = 0,
         overflows |->
            \/ pitch * block_size >= U32Mod
            \/ block_size * width_blocks >= U32Mod
            \/ /\ bytes_per_row_alignment # 0
               /\ row_bytes % bytes_per_row_alignment # 0
               /\ row_bytes - (row_bytes % bytes_per_row_alignment)
                     + bytes_per_row_alignment >= U32Mod
            \/ (c.size.depth_or_array_layers - 1) * block_rows_per_image + height_blocks
                  >= U32Mod]

\* queue.rs 511-541: the copies from the host slice `data` into the mapping of
\* the staging buffer, each as (offset in data, offset in the mapping, length).
StagingCopy(c, format, geometry) ==
    LET block_size == describe(format).block_size
        width_blocks == c.size.width \div describe(format).block_dimensions[1]
        height_blocks == c.size.height \div describe(format).block_dimensions[2]
        bytes_per_row == IF IsSome(c.data_layout.bytes_per_row)
                         THEN c.data_layout.bytes_per_row
                         ELSE Mul32(width_blocks, block_size)
        copy_bytes_per_row == Min(geometry.stage_bytes_per_row, bytes_per_row)
    IN  IF geometry.stage_bytes_per_row = bytes_per_row
        THEN <<[src |-> 0, dst |-> 0, len |-> geometry.stage_size]>>
        ELSE [k \in 1 .. (c.size.depth_or_array_layers * height_blocks) |->
                 LET layer == (k - 1) \div height_blocks
                     row == (k - 1) % height_blocks
                     rows_offset == Mul32(layer, geometry.block_rows_per_image)
                 IN  [src |-> Add32(rows_offset, row) * bytes_per_row,
                      dst |-> Add32(rows_offset, row) * geometry.stage_bytes_per_row,
                      len |-> copy_bytes_per_row]]

\* queue.rs 546-557: one region per array layer, read from the staging buffer.
StageRegions(geometry, texture_base, bytes_per_array_layer, size, array_layer_count) ==
    [i \in 1 .. array_layer_count |->
        [buffer_layout |-> [offset |-> Mul64(i - 1, bytes_per_array_layer),
                            bytes_per_row |-> geometry.stage_bytes_per_row,
                            rows_per_image |-> geometry.block_rows_per_image],
         texture_base |-> [texture_base EXCEPT !.array_layer = Add32(@, i - 1)],
         size |-> size]]

\* queue.rs 489-585: the write once the staging buffer exists.
WriteTextureRegions(dev, c, stage, created, selected, linear, geometry) ==
    LET id == c.destination.texture
        tracked == [dev EXCEPT !.trackers =
                       TextureUseReplace(@, id, selected.selector, "COPY_DST")]
        transition == TexturePending(dev.trackers, id, selected.selector, "COPY_DST")
        range == validate_texture_copy_range(c.destination, textures[id].desc,
                                             "Destination", c.size)
        used == [textures EXCEPT ![id].submission_index =
                                     NextSubmissionIndex(dev.active_submission_index)]
        mapped == created
                  \o <<HalCall("map_buffer", stage, "",
                               StagingCopy(c, textures[id].desc.format, geometry)),
                       HalCall("unmap_buffer", stage, "", <<>>)>>
        regions == StageRegions(geometry, selected.base, linear.bytes_per_image,
                                range.val.copy_extent, range.val.array_layer_count)
        calls == <<HalCall("transition_buffers", "", "", <<StageBarrier(stage)>>),
                   HalCall("transition_textures", "", "", transition),
                   HalCall("copy_buffer_to_texture", stage, id, regions)>>
        written == [tracked EXCEPT !.pending_writes =
                       [Activate(@, calls) EXCEPT !.temp_resources = Append(@, stage),
                                                  !.dst_textures = @ \cup {id}]]
    IN  IF ~textures[id].raw
            THEN DeviceOutcome(tracked, buffers, textures,
                               ErrI("InvalidTexture", [id |-> id]), created)
        ELSE IF "COPY_DST" \notin textures[id].desc.usage
            THEN DeviceOutcome(tracked, buffers, textures,
                               ErrI("MissingCopyDstUsageFlag",
                                    [buffer |-> "", texture |-> id]), created)
        ELSE IF ~range.ok
            THEN DeviceOutcome(tracked, buffers, textures, range, created)
        ELSE IF c.backend_fault = "map_buffer"
            THEN DeviceOutcome(tracked, buffers, used, DeviceError("Lost"), created)
        ELSE DeviceOutcome(written, buffers, used, Ok(NoVal),
                           mapped \o Activated(dev.pending_writes, calls))

queue_write_texture(c) ==
    IF c.queue_id # QueueId
        THEN DeviceOutcome(device, buffers, textures, DeviceError("Invalid"), <<>>)
    ELSE IF ZeroExtent(c.size)
        THEN DeviceOutcome(device, buffers, textures, Ok(NoVal), <<>>)
    ELSE
    LET selected == extract_texture_selector(c.destination, c.size)
        texture_format == selected.val.format
        linear == validate_linear_texture_data(c.data_layout, texture_format, c.data_len,
                                               "Source", describe(texture_format).block_size,
                                               c.size, FALSE)
        geometry == StageGeometry(c, texture_format)
        stage == Staging(device.staging_buffers + 1)
        staged == [device EXCEPT !.staging_buffers = @ + 1]
        created == <<HalCall("create_buffer", stage, "", <<geometry.stage_size>>)>>
    IN  IF ~selected.ok
            THEN DeviceOutcome(device, buffers, textures, selected, <<>>)
        ELSE IF ~linear.ok
            THEN DeviceOutcome(device, buffers, textures, linear, <<>>)
        ELSE IF ~is_valid_copy_dst_texture_format(texture_format)
            THEN DeviceOutcome(device, buffers, textures,
                               ErrI("CopyToForbiddenTextureFormat",
                                    [format |-> texture_format]), <<>>)
        ELSE IF geometry.zero_alignment \/ (overflow_checks /\ geometry.overflows)
            THEN DeviceOutcome(device, buffers, textures, Panic, <<>>)
        ELSE IF c.backend_fault = "create_buffer"
            THEN DeviceOutcome(device, buffers, textures, DeviceError("OutOfMemory"), <<>>)
        ELSE WriteTextureRegions(staged, c, stage, created, selected.val, linear.val,
                                 geometry)

(***************************************************************************)
(* queue_submit (queue.rs 588-853).                                        *)
(***************************************************************************)
WRITE_COMMAND_BUFFERS_PER_POOL == 64

\* The order in which the stores and the trackers are walked.
BufferOrder == <<"B0", "B1", "B2">>
TextureOrder == <<"T0", "T1">>

\* A backend command buffer: what end_encoding returns.
RawCommandBuffer(label, commands) == [label |-> label, commands |-> commands]

\* RequiredBufferInits (queue.rs 181-211): buffer id -> ranges to zero-fill.

\* The fold with check in the place of drain: the ranges stay uninitialized.
AddBufferInit_Check(s, buffer_use) ==
    LET uninitialized_ranges ==
            MemoryInitCheck(s.buffers[buffer_use.id].initialization_status,
                            buffer_use.range[1], buffer_use.range[2])
    IN  IF buffer_use.kind = "ImplicitlyInitialized" THEN s
        ELSE [s EXCEPT !.required[buffer_use.id] =
                           [present |-> TRUE, ranges |-> @.ranges \o uninitialized_ranges]]

\* The fold that gathers the ranges of every action, whatever its kind.
AddBufferInit_GatherAll(s, buffer_use) ==
    LET uninitialized_ranges ==
            MemoryInitCheck(s.buffers[buffer_use.id].initialization_status,
                            buffer_use.range[1], buffer_use.range[2])
        drained == [s.buffers EXCEPT ![buffer_use.id].initialization_status =
                       MemoryInitRemove(@, buffer_use.range[1], buffer_use.range[2])]
    IN  [buffers |-> drained,
         required |-> [s.required EXCEPT ![buffer_use.id] =
                          [present |-> TRUE, ranges |-> @.ranges \o uninitialized_ranges]]]

\* RequiredBufferInits::add for one action; s = [buffers, required].
AddBufferInit(s, buffer_use) ==
    LET uninitialized_ranges ==
            MemoryInitCheck(s.buffers[buffer_use.id].initialization_status,
                            buffer_use.range[1], buffer_use.range[2])
        drained == [s.buffers EXCEPT ![buffer_use.id].initialization_status =
                       MemoryInitRemove(@, buffer_use.range[1], buffer_use.range[2])]
    IN  IF buffer_use.kind = "ImplicitlyInitialized"
        THEN [buffers |-> drained, required |-> s.required]
        ELSE [buffers |-> drained,
              required |-> [s.required EXCEPT ![buffer_use.id] =
                               [present |-> TRUE,
                                ranges |-> @.ranges \o uninitialized_ranges]]]

RECURSIVE AddBufferInits(_, _)
AddBufferInits(s, actions) ==
    IF actions = <<>> THEN s
    ELSE AddBufferInits(AddBufferInit(s, Head(actions)), Tail(actions))

\* queue.rs 678-697, 698-706: the first tracked resource that is destroyed.
Tracked(unit) == unit.last # "EMPTY"

UsedBuffers(trackers) == SelectSeq(BufferOrder, LAMBDA b: Tracked(trackers.buffers[b]))

UsedTextures(trackers) ==
    SelectSeq(TextureOrder,
              LAMBDA t: \E i \in DOMAIN trackers.textures[t] : Tracked(trackers.textures[t][i]))

\* Every id of `used` taken as alive.
AliveBefore_All(used, store) == used

\* The ids of `used` before the first one that has no raw resource.
RECURSIVE AliveBefore(_, _)
AliveBefore(used, store) ==
    IF used = <<>> \/ ~store[Head(used)].raw THEN <<>>
    ELSE <<Head(used)>> \o AliveBefore(Tail(used), store)


\* life_guard.use_at(submit_index) on every id of `alive`.
UseAt(store, alive, submit_index) ==
    [r \in DOMAIN store |->
        IF \E i \in DOMAIN alive : alive[i] = r
        THEN [store[r] EXCEPT !.submission_index = submit_index]
        ELSE store[r]]

\* CommandBuffer::insert_barriers: the device trackers take over the usage
\* the command buffer leaves each resource in; a barrier is due where the
\* usage the device knows differs from the one the command buffer starts in.
MergeUnit(old, other) ==
    IF ~Tracked(other) THEN old ELSE [first |-> old.first, last |-> other.last]

MergePending(old, other) ==
    Tracked(other) /\ old.last # other.first

MergeTrackers(base, head) ==
    [buffers |-> [b \in BufferIds |-> MergeUnit(base.buffers[b], head.buffers[b])],
     textures |-> [t \in TextureIds |->
                      [i \in DOMAIN base.textures[t] |->
                          MergeUnit(base.textures[t][i], head.textures[t][i])]]]

BufferBarriers(base, head) ==
    LET hit == SelectSeq(BufferOrder,
                         LAMBDA b: MergePending(base.buffers[b], head.buffers[b]))
    IN  [k \in DOMAIN hit |->
            [id |-> hit[k], sub |-> <<0, 0>>, from |-> base.buffers[hit[k]].last,
             to |-> head.buffers[hit[k]].first]]

RECURSIVE TextureBarriers(_, _, _)
TextureBarriers(base, head, order) ==
    IF order = <<>> THEN <<>>
    ELSE LET t == Head(order)
             subs == Subresources(textures[t].desc)
             hit == SelectSeq([i \in DOMAIN subs |-> i],
                              LAMBDA i: MergePending(base.textures[t][i], head.textures[t][i]))
         IN  [k \in DOMAIN hit |->
                 [id |-> t, sub |-> subs[hit[k]], from |-> base.textures[t][hit[k]].last,
                  to |-> head.textures[t][hit[k]].first]]
             \o TextureBarriers(base, head, Tail(order))

\* The transit command buffer that stitches a baked command buffer in.
Transit(base, head) ==
    <<HalCall("begin_encoding", "_Transit", "", <<>>),
      HalCall("transition_buffers", "", "", BufferBarriers(base, head)),
      HalCall("transition_textures", "", "", TextureBarriers(base, head, TextureOrder)),
      HalCall("end_encoding", "", "", <<>>)>>

\* The state the loop over command_buffer_ids carries (queue.rs 636-784).
SubmitState(dev) ==
    [command_buffers |-> command_buffers, buffers |-> buffers, textures |-> textures,
     trackers |-> dev.trackers,
     required |-> [b \in BufferIds |-> [present |-> FALSE, ranges |-> <<>>]],
     active_executions |-> <<>>,
     hal |-> <<>>, ret |-> Ok(NoVal)]

\* One finished command buffer (queue.rs 658-783).
SubmitBaked(s, cmb_id, cmdbuf, submit_index, fault) ==
    LET inits == AddBufferInits([buffers |-> s.buffers, required |-> s.required],
                                cmdbuf.buffer_memory_init_actions)
        used_buffers == UsedBuffers(cmdbuf.trackers)
        alive_buffers == AliveBefore(used_buffers, inits.buffers)
        used_textures == UsedTextures(cmdbuf.trackers)
        alive_textures == AliveBefore(used_textures, s.textures)
        s1 == [s EXCEPT !.buffers = UseAt(inits.buffers, alive_buffers, submit_index),
                        !.required = inits.required]
        s2 == [s1 EXCEPT !.textures = UseAt(@, alive_textures, submit_index)]
        transit == Transit(s.trackers, cmdbuf.trackers)
        cmd_buffers == <<RawCommandBuffer("_Transit", transit)>> \o cmdbuf.list
    IN  IF Len(alive_buffers) < Len(used_buffers)
            THEN [s1 EXCEPT !.ret = ErrI("DestroyedBuffer",
                                         [id |-> used_buffers[Len(alive_buffers) + 1]])]
        ELSE IF Len(alive_textures) < Len(used_textures)
            THEN [s2 EXCEPT !.ret = ErrI("DestroyedTexture",
                                         [id |-> used_textures[Len(alive_textures) + 1]])]
        ELSE IF fault = "begin_encoding"
            THEN [s2 EXCEPT !.ret = DeviceError("OutOfMemory")]
        ELSE [s2 EXCEPT !.trackers = MergeTrackers(@, cmdbuf.trackers),
                        !.hal = @ \o transit,
                        !.active_executions =
                            Append(@, [raw |-> cmb_id, cmd_buffers |-> cmd_buffers])]

\* The loop without the test of is_finished: a command buffer that is still
\* recording is submitted like a finished one.
RECURSIVE SubmitCommandBuffers_NoSkip(_, _, _, _)
SubmitCommandBuffers_NoSkip(s, ids, submit_index, fault) ==
    IF ids = <<>> \/ ~s.ret.ok THEN s
    ELSE LET cmb_id == Head(ids)
             registered == /\ cmb_id \in CommandBufferIds
                           /\ s.command_buffers[cmb_id].status # "Vacant"
             cmdbuf == s.command_buffers[cmb_id]
             taken == [s EXCEPT !.command_buffers[cmb_id] = CommandBuffer("Vacant")]
         IN  IF ~registered
                 THEN SubmitCommandBuffers_NoSkip(s, Tail(ids), submit_index, fault)
             ELSE SubmitCommandBuffers_NoSkip(
                      SubmitBaked(taken, cmb_id, cmdbuf, submit_index, fault),
                      Tail(ids), submit_index, fault)

RECURSIVE SubmitCommandBuffers(_, _, _, _)
SubmitCommandBuffers(s, ids, submit_index, fault) ==
    IF ids = <<>> \/ ~s.ret.ok THEN s
    ELSE LET cmb_id == Head(ids)
             registered == /\ cmb_id \in CommandBufferIds
                           /\ s.command_buffers[cmb_id].status # "Vacant"
             cmdbuf == s.command_buffers[cmb_id]
             taken == [s EXCEPT !.command_buffers[cmb_id] = CommandBuffer("Vacant")]
         IN  IF ~registered
                 THEN SubmitCommandBuffers(s, Tail(ids), submit_index, fault)
             ELSE IF cmdbuf.status # "Finished"
                 THEN SubmitCommandBuffers(
                          [taken EXCEPT !.hal = Append(@, HalCall("destroy_command_encoder",
                                                                  cmb_id, "", <<>>))],
                          Tail(ids), submit_index, fault)
             ELSE SubmitCommandBuffers(SubmitBaked(taken, cmb_id, cmdbuf, submit_index, fault),
                                       Tail(ids), submit_index, fault)


\* queue.rs 238-246: sort by start, then collapse touching ranges.
RECURSIVE SortRanges(_)
SortRanges(ranges) ==
    IF ranges = <<>> THEN <<>>
    ELSE LET least == CHOOSE i \in DOMAIN ranges :
                          \A j \in DOMAIN ranges :
                              ranges[i][1] < ranges[j][1] \/ (ranges[i][1] = ranges[j][1] /\ i <= j)
         IN  <<ranges[least]>>
             \o SortRanges([k \in 1 .. (Len(ranges) - 1) |->
                               IF k < least THEN ranges[k] ELSE ranges[k + 1]])

\* The sorted ranges left as they are.
CollapseTouching_Keep(ranges, j) == ranges

RECURSIVE CollapseTouching(_, _)
CollapseTouching(ranges, j) ==
    IF j < 2 THEN ranges
    ELSE IF ranges[j][1] = ranges[j - 1][2]
        THEN LET joined == [ranges EXCEPT ![j - 1] = <<@[1], ranges[j][2]>>]
                 \* ranges.swap_remove(j)
                 removed == SubSeq([joined EXCEPT ![j] = joined[Len(joined)]],
                                   1, Len(joined) - 1)
             IN  CollapseTouching(removed, j - 1)
    ELSE CollapseTouching(ranges, j - 1)

\* initialize_buffer_memory for one buffer; s = [trackers, calls, ret].  The
\* assertion of 242 runs while the ranges are collapsed, the buffer is looked
\* up next (256-260), and the assertions of 266-267 run range by range before
\* each fill.
InitializeBuffer(s, buffer_id, ranges) ==
    LET sorted == SortRanges(ranges)
        collapsed == CollapseTouching(sorted, Len(sorted))
        transition == BufferPending(s.trackers, buffer_id, "COPY_DST")
        changed == BufferUseReplace(s.trackers, buffer_id, "COPY_DST")
        fills == [k \in DOMAIN collapsed |->
                     HalCall("fill_buffer", "", buffer_id, <<collapsed[k]>>)]
    IN  IF \E j \in 2 .. Len(sorted) : sorted[j - 1][2] > sorted[j][1]
            THEN [s EXCEPT !.ret = Panic]
        ELSE IF ~buffers[buffer_id].raw
            THEN [s EXCEPT !.trackers = changed,
                           !.ret = ErrI("DestroyedBuffer", [id |-> buffer_id])]
        ELSE IF \E j \in DOMAIN collapsed : collapsed[j][1] % 4 # 0 \/ collapsed[j][2] % 4 # 0
            THEN [s EXCEPT !.trackers = changed, !.ret = Panic]
        ELSE [s EXCEPT !.trackers = changed,
                       !.calls = @ \o <<HalCall("transition_buffers", "", "", transition)>>
                                   \o fills]

RECURSIVE InitializeBuffers(_, _, _)
InitializeBuffers(s, required, order) ==
    IF order = <<>> \/ ~s.ret.ok THEN s
    ELSE InitializeBuffers(
             IF required[Head(order)].present
             THEN InitializeBuffer(s, Head(order), required[Head(order)].ranges)
             ELSE s,
             required, Tail(order))

\* The increment left out.
IncrementSubmissionIndex_Skip(index) == index

\* queue.rs 604: device.active_submission_index += 1.
IncrementSubmissionIndex(index) == index + 1

\* The command buffers handed to the backend queue, by label.
Labels(cmd_buffers) == [k \in DOMAIN cmd_buffers |-> cmd_buffers[k].label]

\* The executions chained last to first.
RECURSIVE Flatten_Reversed(_)
Flatten_Reversed(executions) ==
    IF executions = <<>> THEN <<>>
    ELSE Flatten_Reversed(Tail(executions)) \o Head(executions).cmd_buffers

\* queue.rs 803-807: the command buffers of the executions, chained in order.
RECURSIVE Flatten(_)
Flatten(executions) ==
    IF executions = <<>> THEN <<>>
    ELSE Head(executions).cmd_buffers \o Flatten(Tail(executions))

\* queue.rs 788-852: from the zero-fills to the return; `looped` is the state
\* the loop over the command buffers left.
SubmitRest(dev, looped, c, submit_index) ==
    LET needs_init == \E b \in BufferIds : looped.required[b].present
        keys == {b \in BufferIds : looped.required[b].present}
        inited ==
            IF needs_init
            THEN InitializeBuffers([trackers |-> looped.trackers, calls |-> <<>>,
                                    ret |-> Ok(NoVal)], looped.required, BufferOrder)
            ELSE [trackers |-> looped.trackers, calls |-> <<>>, ret |-> Ok(NoVal)]
        filled == IF needs_init
                  THEN [Activate(dev.pending_writes, inited.calls)
                           EXCEPT !.dst_buffers = @ \cup keys]
                  ELSE dev.pending_writes
        fill_calls == IF needs_init THEN Activated(dev.pending_writes, inited.calls)
                      ELSE <<>>
        dev1 == [dev EXCEPT !.trackers = inited.trackers, !.pending_writes = filled]
        \* PendingWrites::pre_submit
        ended == IF filled.is_active
                 THEN <<RawCommandBuffer("_PendingWrites",
                                         Append(filled.commands,
                                                HalCall("end_encoding", "", "", <<>>)))>>
                 ELSE <<>>
        pre == [filled EXCEPT !.dst_buffers = {}, !.dst_textures = {},
                              !.is_active = FALSE, !.commands = <<>>,
                              !.executing_command_buffers = @ \o Labels(ended)]
        refs == ended \o Flatten(looped.active_executions)
        dev2 == [dev1 EXCEPT !.pending_writes = pre]
        submitted == [submissions |-> queue.submissions + 1, fence_value |-> submit_index]
        \* PendingWrites::post_submit
        recycle == Len(pre.executing_command_buffers) >= WRITE_COMMAND_BUFFERS_PER_POOL
        active_executions ==
            looped.active_executions
            \o (IF recycle
                THEN <<[raw |-> "_PendingWrites",
                        cmd_buffers |-> pre.executing_command_buffers]>>
                ELSE <<>>)
        post == [pre EXCEPT !.executing_command_buffers = IF recycle THEN <<>> ELSE @,
                            !.temp_resources = <<>>]
        \* LifetimeTracker::track_submission, then Device::maintain
        tracked == Append(dev.life_tracker,
                          [index |-> submit_index, last_resources |-> pre.temp_resources,
                           encoders |-> [k \in DOMAIN active_executions |->
                                            active_executions[k].raw]])
        dev3 == [dev2 EXCEPT !.pending_writes = post,
                             !.life_tracker = IF c.gpu_done THEN <<>> ELSE tracked]
        calls == looped.hal \o fill_calls
        result(d, q, r, h) ==
            [device |-> d, buffers |-> looped.buffers, textures |-> looped.textures,
             command_buffers |-> looped.command_buffers, queue |-> q, ret |-> r, hal |-> h]
    IN  IF ~inited.ret.ok
            THEN result(dev1, queue, inited.ret, calls)
        ELSE IF c.backend_fault = "submit"
            THEN result(dev2, queue, DeviceError("Lost"), calls)
        ELSE result(dev3, submitted, Ok(NoVal),
                    calls \o <<HalCall("submit", "", "", <<Labels(refs), submit_index>>)>>)

queue_submit(c) ==
    IF c.queue_id # QueueId
    THEN [device |-> device, buffers |-> buffers, textures |-> textures,
          command_buffers |-> command_buffers, queue |-> queue,
          ret |-> DeviceError("Invalid"), hal |-> <<>>]
    ELSE
    LET submit_index == IncrementSubmissionIndex(device.active_submission_index)
        dev == [device EXCEPT !.active_submission_index = submit_index]
        looped == SubmitCommandBuffers(SubmitState(dev), c.command_buffer_ids, submit_index,
                                       c.backend_fault)
    IN  IF ~looped.ret.ok
        THEN [device |-> [dev EXCEPT !.trackers = looped.trackers],
              buffers |-> looped.buffers, textures |-> looped.textures,
              command_buffers |-> looped.command_buffers, queue |-> queue,
              ret |-> looped.ret, hal |-> looped.hal]
        ELSE SubmitRest(dev, looped, c, submit_index)

(***************************************************************************)
(* The queue operations as actions, and the operations of the rest of the  *)
(* API that the state machine needs: finishing an encoder, destroying a    *)
(* buffer.                                                                 *)
(***************************************************************************)
InstallDevice(outcome) ==
    /\ device' = outcome.device
    /\ buffers' = outcome.buffers
    /\ textures' = outcome.textures
    /\ ret' = outcome.ret
    /\ hal_calls' = outcome.hal

QueueWriteBuffer(c) ==
    /\ c.op = "queue_write_buffer"
    /\ InstallDevice(queue_write_buffer(c))
    /\ UNCHANGED <<threads, overflow_checks, command_buffers, queue>>

QueueWriteTexture(c) ==
    /\ c.op = "queue_write_texture"
    /\ InstallDevice(queue_write_texture(c))
    /\ UNCHANGED <<threads, overflow_checks, command_buffers, queue>>

QueueSubmit(c) ==
    /\ c.op = "queue_submit"
    /\ InstallDevice(queue_submit(c))
    /\ command_buffers' = queue_submit(c).command_buffers
    /\ queue' = queue_submit(c).queue
    /\ UNCHANGED <<threads, overflow_checks>>

\* command_encoder_finish: the open encoding is closed into the list.
Finished(cmd_buf, id) ==
    [cmd_buf EXCEPT !.status = "Finished", !.is_open = FALSE, !.commands = <<>>,
                    !.list = IF cmd_buf.is_open
                             THEN <<RawCommandBuffer(id, Append(cmd_buf.commands,
                                        HalCall("end_encoding", "", "", <<>>)))>>
                             ELSE <<>>]

CommandEncoderFinish(c) ==
    /\ c.op = "command_encoder_finish"
    /\ command_buffers[c.command_encoder_id].status = "Recording"
    /\ command_buffers' = [command_buffers EXCEPT ![c.command_encoder_id] =
                              Finished(@, c.command_encoder_id)]
    /\ ret' = Ok(NoVal)
    /\ hal_calls' = IF command_buffers[c.command_encoder_id].is_open
                    THEN <<HalCall("end_encoding", "", "", <<>>)>> ELSE <<>>
    /\ UNCHANGED <<threads, overflow_checks, buffers, textures, device, queue>>

\* buffer_destroy: the raw buffer is taken out of the resource.
BufferDestroy(c) ==
    /\ c.op = "buffer_destroy"
    /\ buffers[c.buffer_id].raw
    /\ buffers' = [buffers EXCEPT ![c.buffer_id].raw = FALSE]
    /\ device' = IF c.buffer_id \in device.pending_writes.dst_buffers
                 THEN [device EXCEPT !.pending_writes.temp_resources = Append(@, c.buffer_id)]
                 ELSE device
    /\ ret' = Ok(NoVal)
    /\ hal_calls' = <<>>
    /\ UNCHANGED <<threads, overflow_checks, textures, command_buffers, queue>>

\* texture_destroy: the raw texture is taken out of the resource.
TextureDestroy(c) ==
    /\ c.op = "texture_destroy"
    /\ textures[c.texture_id].raw
    /\ textures' = [textures EXCEPT ![c.texture_id].raw = FALSE]
    /\ device' = IF c.texture_id \in device.pending_writes.dst_textures
                 THEN [device EXCEPT !.pending_writes.temp_resources = Append(@, c.texture_id)]
                 ELSE device
    /\ ret' = Ok(NoVal)
    /\ hal_calls' = <<>>
    /\ UNCHANGED <<threads, overflow_checks, buffers, command_buffers, queue>>

(***************************************************************************)
(* The state machine: one device, its queue, two command encoders.  An     *)
(* operation runs when the previous one has returned.                      *)
(***************************************************************************)
MaxSubmits == 2
MaxStaging == 1
MaxRecorded == 1
MaxPoolSubmits == 66

NoCall == [op |-> "none"]

ImageCopyTexture(texture, z) ==
    [texture |-> texture, mip_level |-> 0, origin |-> [x |-> 0, y |-> 0, z |-> z], aspect |-> "All"]

ImageDataLayout(offset, bytes_per_row, rows_per_image) ==
    [offset |-> offset, bytes_per_row |-> bytes_per_row, rows_per_image |-> rows_per_image]

\* No input of this specification reaches a sum or product past the word, so
\* the two build profiles behave alike here; SpecCopy explores both.
Init ==
    /\ overflow_checks = FALSE
    /\ call = NoCall
    /\ ret = Pending
    /\ InitWorld

\* What an encoder holds: commands, init actions, tracked resources.
Load(cmd_buf) ==
    Len(cmd_buf.commands) + Len(cmd_buf.buffer_memory_init_actions)
    + Cardinality({b \in BufferIds : Tracked(cmd_buf.trackers.buffers[b])})
    + Cardinality({t \in TextureIds :
                      \E i \in DOMAIN cmd_buf.trackers.textures[t] :
                          Tracked(cmd_buf.trackers.textures[t][i])})

\* The encoder still takes commands (the cap of the model on what it holds).
HasRoom(c) == Load(command_buffers[c.command_encoder_id]) < MaxRecorded

\* The caller takes the result; the next operation may start.
Return ==
    /\ ret # Pending
    /\ ret # Panic
    /\ call' = NoCall
    /\ ret' = Pending
    /\ hal_calls' = <<>>
    /\ UNCHANGED <<threads, overflow_checks, buffers, textures, command_buffers, device, queue>>

Next ==
    \/ \E c \in [op : {"copy_buffer_to_buffer"}, command_encoder_id : {"E0"},
                 source : {"B0"}, source_offset : {0},
                 destination : {"B1"}, destination_offset : {0},
                 size : {0, 4, 6}] :
          ret = Pending /\ HasRoom(c) /\ call' = c /\ CopyBufferToBuffer(c)
    \/ \E c \in [op : {"copy_buffer_to_texture"}, command_encoder_id : {"E0"},
                 source : [buffer : {"B0"},
                           layout : {ImageDataLayout(0, COPY_BYTES_PER_ROW_ALIGNMENT, NoneNZ)}],
                 destination : {ImageCopyTexture("T0", 0), ImageCopyTexture("T1", 0)},
                 copy_size : {Extent(1, 1, 1)}] :
          ret = Pending /\ HasRoom(c) /\ call' = c /\ CopyBufferToTexture(c)
    \/ \E c \in [op : {"copy_texture_to_buffer"}, command_encoder_id : {"E0"},
                 source : {ImageCopyTexture("T0", 0)},
                 destination : [buffer : {"B1"},
                                layout : {ImageDataLayout(0, COPY_BYTES_PER_ROW_ALIGNMENT,
                                          NoneNZ)}],
                 copy_size : {Extent(1, 1, 1)}] :
          ret = Pending /\ HasRoom(c) /\ call' = c /\ CopyTextureToBuffer(c)
    \/ \E c \in [op : {"copy_texture_to_texture"}, command_encoder_id : {"E0"},
                 source : {ImageCopyTexture("T0", 0)},
                 destination : {ImageCopyTexture("T0", 1)},
                 copy_size : {Extent(1, 1, 1)}] :
          ret = Pending /\ HasRoom(c) /\ call' = c /\ CopyTextureToTexture(c)
    \/ \E c \in ([op : {"queue_write_buffer"}, queue_id : {QueueId},
                  buffer_id : {"B1"}, buffer_offset : {0}, data_size : {4, 6},
                  backend_fault : {"none"}]
                 \cup [op : {"queue_write_buffer"}, queue_id : {QueueId},
                  buffer_id : {"B1"}, buffer_offset : {0}, data_size : {4},
                  backend_fault : {"create_buffer"}]) :
          ret = Pending /\ device.staging_buffers < MaxStaging /\ call' = c /\ QueueWriteBuffer(c)
    \/ \E c \in [op : {"queue_write_texture"}, queue_id : {QueueId},
                 destination : {ImageCopyTexture("T0", 0), ImageCopyTexture("T0", 2)},
                 data_len : {4}, data_layout : {ImageDataLayout(0, NoneNZ, NoneNZ)},
                 size : {Extent(1, 1, 1)}, backend_fault : {"none"}] :
          ret = Pending /\ device.staging_buffers < MaxStaging /\ call' = c /\ QueueWriteTexture(c)
    \/ \E c \in ([op : {"queue_submit"}, queue_id : {QueueId},
                  command_buffer_ids : {<<>>, <<"E0", "E1">>},
                  backend_fault : {"none", "submit"}, gpu_done : {TRUE}]
                 \cup [op : {"queue_submit"}, queue_id : {QueueId, InvalidQueueId},
                  command_buffer_ids : {<<>>}, backend_fault : {"none"}, gpu_done : {FALSE}]) :
          ret = Pending /\ device.active_submission_index < MaxSubmits /\ call' = c /\ QueueSubmit(c)
    \/ \E c \in [op : {"command_encoder_finish"}, command_encoder_id : CommandBufferIds] :
          ret = Pending /\ call' = c /\ CommandEncoderFinish(c)
    \/ \E c \in [op : {"buffer_destroy"}, buffer_id : {"B1"}] :
          ret = Pending /\ call' = c /\ BufferDestroy(c)
    \/ Return

Spec == Init /\ [][Next]_vars

\* The same with the callers going on: a caller takes the result of its
\* call, and queue_submit with an empty list goes on being called, as long
\* as the bound on the submissions allows, until the backend takes one.
SpecFair ==
    /\ Spec
    /\ WF_ret(Return)
    /\ SF_ret(\E c \in [op : {"queue_submit"}, queue_id : {QueueId},
                         command_buffer_ids : {<<>>}, backend_fault : {"none"},
                         gpu_done : {TRUE}] :
                 /\ ret = Pending
                 /\ device.active_submission_index < MaxSubmits
                 /\ call' = c
                 /\ QueueSubmit(c))

(***************************************************************************)
(* The same device with both encoders recording: copies out of B0 at two   *)
(* offsets, a queued write into B0, and submissions of either encoder or   *)
(* both.                                                                   *)
(***************************************************************************)
NextStitch ==
    \/ \E c \in [op : {"copy_buffer_to_buffer"}, command_encoder_id : CommandBufferIds,
                  source : {"B0"}, source_offset : {0, 4},
                  destination : {"B1"}, destination_offset : {0}, size : {4, 8}] :
          ret = Pending /\ HasRoom(c) /\ call' = c /\ CopyBufferToBuffer(c)
    \/ \E c \in [op : {"queue_write_buffer"}, queue_id : {QueueId}, buffer_id : {"B0"},
                  buffer_offset : {0}, data_size : {4}, backend_fault : {"none"}] :
          ret = Pending /\ device.staging_buffers < MaxStaging /\ call' = c /\ QueueWriteBuffer(c)
    \/ \E c \in [op : {"queue_submit"}, queue_id : {QueueId},
                  command_buffer_ids : {<<"E0">>, <<"E1">>, <<"E0", "E1">>, <<"E1", "E0">>},
                  backend_fault : {"none"}, gpu_done : {TRUE}] :
          ret = Pending /\ device.active_submission_index < MaxSubmits /\ call' = c /\ QueueSubmit(c)
    \/ \E c \in [op : {"command_encoder_finish"}, command_encoder_id : CommandBufferIds] :
          ret = Pending /\ call' = c /\ CommandEncoderFinish(c)
    \/ Return

SpecStitch == Init /\ [][NextStitch]_vars

(***************************************************************************)
(* The same device where T0 is a texture of a format with 1-byte blocks:   *)
(* the four copies, a queued write, and submissions.                       *)
(***************************************************************************)
InitAlign ==
    /\ overflow_checks = FALSE
    /\ call = NoCall
    /\ ret = Pending
    /\ hal_calls = <<>>
    /\ buffers = InitBuffers
    /\ textures = [InitTextures EXCEPT !["T0"].desc.format = "R8Unorm"]
    /\ command_buffers = [e \in CommandBufferIds |-> CommandBuffer("Recording")]
    /\ device = InitDevice
    /\ queue = InitQueue
    /\ threads = [t \in 1 .. MaxThreads |-> [call |-> [op |-> "none"], pc |-> 0, held |-> {}]]

NextAlign ==
    \/ \E c \in [op : {"copy_buffer_to_buffer"}, command_encoder_id : {"E1"},
                  source : {"B0"}, source_offset : {0},
                  destination : {"B1"}, destination_offset : {0}, size : {4}] :
          ret = Pending /\ HasRoom(c) /\ call' = c /\ CopyBufferToBuffer(c)
    \/ \E c \in [op : {"copy_buffer_to_texture"}, command_encoder_id : {"E0"},
                  source : [buffer : {"B0"},
                            layout : {ImageDataLayout(0, COPY_BYTES_PER_ROW_ALIGNMENT, NoneNZ),
                                      ImageDataLayout(1, COPY_BYTES_PER_ROW_ALIGNMENT, NoneNZ)}],
                  destination : {ImageCopyTexture("T0", 0)},
                  copy_size : {Extent(1, 1, 1), Extent(4, 1, 1)}] :
          ret = Pending /\ HasRoom(c) /\ call' = c /\ CopyBufferToTexture(c)
    \/ \E c \in [op : {"copy_texture_to_buffer"}, command_encoder_id : {"E0"},
                  source : {ImageCopyTexture("T0", 0)},
                  destination : [buffer : {"B1"},
                                 layout : {ImageDataLayout(0, COPY_BYTES_PER_ROW_ALIGNMENT, NoneNZ),
                                           ImageDataLayout(1, COPY_BYTES_PER_ROW_ALIGNMENT, NoneNZ)}],
                  copy_size : {Extent(1, 1, 1)}] :
          ret = Pending /\ HasRoom(c) /\ call' = c /\ CopyTextureToBuffer(c)
    \/ \E c \in [op : {"copy_texture_to_texture"}, command_encoder_id : {"E1"},
                  source : {ImageCopyTexture("T0", 0)},
                  destination : {ImageCopyTexture("T0", 1)},
                  copy_size : {Extent(1, 1, 1)}] :
          ret = Pending /\ HasRoom(c) /\ call' = c /\ CopyTextureToTexture(c)
    \/ \E c \in [op : {"queue_write_buffer"}, queue_id : {QueueId}, buffer_id : {"B0"},
                  buffer_offset : {0}, data_size : {4}, backend_fault : {"none"}] :
          ret = Pending /\ device.staging_buffers < MaxStaging /\ call' = c /\ QueueWriteBuffer(c)
    \/ \E c \in [op : {"queue_submit"}, queue_id : {QueueId},
                  command_buffer_ids : {<<"E0", "E1">>},
                  backend_fault : {"none"}, gpu_done : {TRUE}] :
          ret = Pending /\ device.active_submission_index < MaxSubmits /\ call' = c /\ QueueSubmit(c)
    \/ \E c \in [op : {"command_encoder_finish"}, command_encoder_id : CommandBufferIds] :
          ret = Pending /\ call' = c /\ CommandEncoderFinish(c)
    \/ Return

SpecAlign == InitAlign /\ [][NextAlign]_vars

(***************************************************************************)
(* The pool of the pending writes over a long run: the caller alternates a *)
(* queued write with a submit of no command buffers, and the backend       *)
(* queue.submit may fail.                                                  *)
(***************************************************************************)
NextPool ==
    \/ \E c \in [op : {"queue_write_buffer"}, queue_id : {QueueId}, buffer_id : {"B1"},
                  buffer_offset : {0}, data_size : {4}, backend_fault : {"none"}] :
          /\ ret = Pending
          /\ ~device.pending_writes.is_active
          /\ device.staging_buffers < MaxPoolSubmits
          /\ call' = c
          /\ QueueWriteBuffer(c)
    \/ \E c \in [op : {"queue_submit"}, queue_id : {QueueId}, command_buffer_ids : {<<>>},
                  backend_fault : {"none", "submit"}, gpu_done : {TRUE}] :
          /\ ret = Pending
          /\ device.pending_writes.is_active
          /\ device.active_submission_index < MaxPoolSubmits
          /\ call' = c
          /\ QueueSubmit(c)
    \/ Return

SpecPool == Init /\ [][NextPool]_vars

(***************************************************************************)
(* Resources destroyed at any time: two encoders that record the four      *)
(* copies between B0, B1 and T0, queued writes into B1 and T0, the         *)
(* destruction of B1 and of T0, and submissions.                           *)
(***************************************************************************)
NextDestroy ==
    \/ \E c \in [op : {"copy_buffer_to_buffer"}, command_encoder_id : {"E0"},
                  source : {"B0"}, source_offset : {0},
                  destination : {"B1"}, destination_offset : {0}, size : {4}] :
          ret = Pending /\ HasRoom(c) /\ call' = c /\ CopyBufferToBuffer(c)
    \/ \E c \in [op : {"copy_buffer_to_texture"}, command_encoder_id : {"E0"},
                  source : [buffer : {"B0"},
                            layout : {ImageDataLayout(0, COPY_BYTES_PER_ROW_ALIGNMENT, NoneNZ)}],
                  destination : {ImageCopyTexture("T0", 0)}, copy_size : {Extent(1, 1, 1)}] :
          ret = Pending /\ HasRoom(c) /\ call' = c /\ CopyBufferToTexture(c)
    \/ \E c \in [op : {"copy_texture_to_buffer"}, command_encoder_id : {"E1"},
                  source : {ImageCopyTexture("T0", 0)},
                  destination : [buffer : {"B1"},
                                 layout : {ImageDataLayout(0, COPY_BYTES_PER_ROW_ALIGNMENT, NoneNZ)}],
                  copy_size : {Extent(1, 1, 1)}] :
          ret = Pending /\ HasRoom(c) /\ call' = c /\ CopyTextureToBuffer(c)
    \/ \E c \in [op : {"copy_texture_to_texture"}, command_encoder_id : {"E1"},
                  source : {ImageCopyTexture("T0", 0)},
                  destination : {ImageCopyTexture("T0", 1)}, 
                  copy_size : {Extent(1, 1, 1), Extent(0, 1, 1)}] :
          ret = Pending /\ HasRoom(c) /\ call' = c /\ CopyTextureToTexture(c)
    \/ \E c \in [op : {"queue_write_buffer"}, queue_id : {QueueId}, buffer_id : {"B1"},
                  buffer_offset : {0}, data_size : {4}, backend_fault : {"none"}] :
          ret = Pending /\ device.staging_buffers < MaxStaging /\ call' = c /\ QueueWriteBuffer(c)
    \/ \E c \in [op : {"queue_write_texture"}, queue_id : {QueueId},
                  destination : {ImageCopyTexture("T0", 0)}, data_len : {4},
                  data_layout : {ImageDataLayout(0, NoneNZ, NoneNZ)},
                  size : {Extent(1, 1, 1)}, backend_fault : {"none"}] :
          ret = Pending /\ device.staging_buffers < MaxStaging /\ call' = c /\ QueueWriteTexture(c)
    \/ \E c \in [op : {"queue_submit"}, queue_id : {QueueId},
                  command_buffer_ids : {<<"E0", "E1">>, <<"E1">>},
                  backend_fault : {"none"}, gpu_done : {TRUE}] :
          ret = Pending /\ device.active_submission_index < MaxSubmits /\ call' = c /\ QueueSubmit(c)
    \/ \E c \in [op : {"command_encoder_finish"}, command_encoder_id : CommandBufferIds] :
          ret = Pending /\ call' = c /\ CommandEncoderFinish(c)
    \/ \E c \in [op : {"buffer_destroy"}, buffer_id : {"B1"}] :
          ret = Pending /\ call' = c /\ BufferDestroy(c)
    \/ \E c \in [op : {"texture_destroy"}, texture_id : {"T0"}] :
          ret = Pending /\ call' = c /\ TextureDestroy(c)
    \/ Return

SpecDestroy == Init /\ [][NextDestroy]_vars

(***************************************************************************)
(* Locking.  Every operation starts from Token::root() and takes the       *)
(* registry locks of the hub (reader-writer locks) and the device's        *)
(* trackers mutex in the order of its code; a guard is released where its  *)
(* binding goes out of scope or is dropped.  A step of a thread is one     *)
(* acquisition, one release, or the part of the body that runs with the    *)
(* locks of that point.  The operations' longest paths are modelled: an    *)
(* early return releases what is held at that point and reaches no other   *)
(* combination of held locks.  The feature-gated trace mutex, the command  *)
(* allocator mutex and the life tracker mutex are taken and released with  *)
(* nothing acquired in between and are left out, as are the locks of       *)
(* Device::maintain.                                                       *)
(***************************************************************************)

\* A queue operation that does not lock the device registry.
DeviceGate_None(c) ==
    <<>>

\* A queue operation that locks the device registry for reading.
DeviceGate_Read(c) ==
    IF c.op \in {"queue_write_buffer", "queue_write_texture", "queue_submit"}
    THEN <<[kind |-> "acquire", locks |-> {"devices"}, mode |-> "read"]>>
    ELSE <<>>

\* hub.devices.write: queue.rs 321 (write_buffer), 422 (write_texture), 599 (queue_submit).
\* The copy-recording operations never lock the device registry.
DeviceGate(c) ==
    IF c.op \in {"queue_write_buffer", "queue_write_texture", "queue_submit"}
    THEN <<[kind |-> "acquire", locks |-> {"devices"}, mode |-> "write"]>>
    ELSE <<>>

\* The lock steps of an operation, in program order.
LockSteps(c) ==
    LET Read(l) == [kind |-> "acquire", locks |-> {l}, mode |-> "read"]
        Write(l) == [kind |-> "acquire", locks |-> {l}, mode |-> "write"]
        Lock(l) == [kind |-> "acquire", locks |-> {l}, mode |-> "lock"]
        Drop(ls) == [kind |-> "release", locks |-> ls, mode |-> "none"]
        Run(what) == [kind |-> "run", locks |-> {}, mode |-> what]
    IN  DeviceGate(c) \o
        CASE c.op = "copy_buffer_to_buffer" ->                \* transfer.rs 347, 349
               <<Write("command_buffers"), Read("buffers")>>
          [] c.op \in {"copy_buffer_to_texture", "copy_texture_to_buffer"} ->
               \* transfer.rs 478, 480, 481 and 601, 603, 604
               <<Write("command_buffers"), Read("buffers"), Read("textures")>>
          [] c.op = "copy_texture_to_texture" ->
               \* transfer.rs 733, 735 (the buffers guard is not bound), 736
               <<Write("command_buffers"), Read("buffers"), Drop({"buffers"}),
                 Read("textures")>>
          [] c.op = "queue_write_buffer" ->
               \* queue.rs 325, 348, 399, 400, 405: the trackers stay locked
               \* while the buffer registry is locked again for writing
               <<Read("buffers"), Lock("trackers"), Drop({"buffers"}), Write("buffers"),
                 Drop({"buffers"})>>
          [] c.op = "queue_write_texture" ->                  \* queue.rs 444, 487
               <<Read("textures"), Lock("trackers")>>
          [] c.op = "queue_submit" ->
               <<Write("swap_chains"), Write("command_buffers")>>        \* queue.rs 610, 611
               \o (IF c.command_buffer_ids # <<>>                        \* queue.rs 613
                   THEN <<Read("render_bundles"),                        \* queue.rs 616-625
                          Read("pipeline_layouts"), Drop({"pipeline_layouts"}),
                          Read("bind_groups"), Read("compute_pipelines"),
                          Read("render_pipelines"), Write("buffers"), Write("textures"),
                          Read("texture_views"), Read("samplers"), Read("query_sets"),
                          Lock("trackers"),                              \* queue.rs 629
                          Drop({"trackers"}),                            \* queue.rs 787
                          \* initialize_buffer_memory, queue.rs 236 to 276
                          Lock("trackers"), Drop({"trackers"}),
                          Drop({"render_bundles", "bind_groups", "compute_pipelines",
                                "render_pipelines", "buffers", "textures", "texture_views",
                                "samplers", "query_sets"})>>             \* queue.rs 792
                   ELSE <<>>)
               \o <<Run("queue.submit"),                                 \* queue.rs 800-813
                    Drop({"swap_chains", "command_buffers"}),            \* queue.rs 814
                    Drop({"devices"}),                                   \* queue.rs 846
                    Run("fire_map_callbacks")>>                          \* queue.rs 850
          [] OTHER -> <<>>

\* Threads call the seven operations at any time.  A reader-writer lock is
\* granted for reading while nobody holds it for writing, and for writing
\* while nobody holds it; the mutex while nobody holds it.  The return of
\* the operation drops the guards that are still alive.
NextLocks ==
    \E t \in 1 .. MaxThreads :
        LET th == threads[t]
            steps == LockSteps(th.call)
            step == steps[th.pc]
        IN  /\ \/ /\ th.pc = 0
                  /\ \E c \in [op : {"copy_buffer_to_buffer", "copy_buffer_to_texture",
                                     "copy_texture_to_buffer", "copy_texture_to_texture",
                                     "queue_write_buffer", "queue_write_texture"}]
                              \cup [op : {"queue_submit"}, queue_id : {QueueId},
                                    command_buffer_ids : {<<>>, <<"E0">>}] :
                        threads' = [threads EXCEPT ![t] = [call |-> c, pc |-> 1, held |-> {}]]
               \/ /\ th.pc \in 1 .. Len(steps)
                  /\ step.kind = "acquire"
                  /\ \A u \in 1 .. MaxThreads : \A h \in threads[u].held :
                        h[1] \in step.locks => u # t /\ step.mode = "read" /\ h[2] = "read"
                  /\ threads' = [threads EXCEPT ![t].pc = @ + 1,
                                     ![t].held = @ \cup {<<l, step.mode>> : l \in step.locks}]
               \/ /\ th.pc \in 1 .. Len(steps)
                  /\ step.kind = "release"
                  /\ threads' = [threads EXCEPT ![t].pc = @ + 1,
                                     ![t].held = {h \in @ : h[1] \notin step.locks}]
               \/ /\ th.pc \in 1 .. Len(steps)
                  /\ step.kind = "run"
                  /\ threads' = [threads EXCEPT ![t].pc = @ + 1]
               \/ /\ th.pc = Len(steps) + 1
                  /\ threads' = [threads EXCEPT ![t] =
                                     [call |-> [op |-> "none"], pc |-> 0, held |-> {}]]
            /\ UNCHANGED <<overflow_checks, call, ret, world>>

SpecLocks == Init /\ [][NextLocks]_vars



(***************************************************************************)
(* Specification of validate_linear_texture_data as a function: Init draws *)
(* the arguments, the action applies the function.                         *)
(***************************************************************************)

LinearCalls ==
    [op : {"validate_linear_texture_data"},
     layout : [offset : {0, 6, 8, U64Mod - 4}, bytes_per_row : {NoneNZ, 16, 64, 256, U32Mod \div 2},
               rows_per_image : {NoneNZ, 1, 4, U32Mod \div 2}],
     format : {"R8Unorm", "Rgba8Unorm", "Bc1RgbaUnorm"},
     buffer_size : {0, 64, 4096},
     buffer_side : {"Source"},
     copy_size : [width : {0, 1, 6, 16, 64}, height : {0, 1, 2, 4, 8},
                  depth_or_array_layers : 0 .. MaxCopyDepth],
     need_copy_aligned_rows : BOOLEAN]

InitLinear ==
    /\ overflow_checks \in BOOLEAN
    /\ call \in LinearCalls
    /\ ret = Pending
    /\ InitWorld

ValidateLinear ==
    /\ call.op = "validate_linear_texture_data"
    /\ ret = Pending
    /\ ret' = validate_linear_texture_data(call.layout, call.format, call.buffer_size,
                                           call.buffer_side,
                                           describe(call.format).block_size,
                                           call.copy_size, call.need_copy_aligned_rows)
    /\ UNCHANGED <<threads, overflow_checks, call, world>>

SpecLinear == InitLinear /\ [][ValidateLinear]_vars

(***************************************************************************)
(* Specification of validate_texture_copy_range as a function.             *)
(***************************************************************************)

RangeDescs ==
    {Desc("Rgba8Unorm", "D2", Extent(16, 16, MaxLayers), 2, {"COPY_SRC", "COPY_DST"}),
     Desc("Bc1RgbaUnorm", "D2", Extent(16, 16, 1), MaxMipLevel, {"COPY_SRC", "COPY_DST"}),
     Desc("Rgba8Unorm", "D3", Extent(8, 8, 4), 3, {"COPY_SRC", "COPY_DST"}),
     Desc("R8Unorm", "D1", Extent(16, 1, 1), 1, {"COPY_SRC", "COPY_DST"})}


RangeCalls ==
    [op : {"validate_texture_copy_range"},
     view : [mip_level : 0 .. MaxMipLevel,
             origin : [x : {0, 2, 4, U32Mod - 1}, y : {0, 2, 4, U32Mod - 1},
                       z : {0, 1, U32Mod - 1}]],
     desc : RangeDescs,
     side : {"Destination"},
     copy_size : [width : {0, 1, 2, 4, 8, 16}, height : {0, 1, 2, 4, 8, 16},
                  depth_or_array_layers : 1 .. (MaxLayers + 1)]]

InitRange ==
    /\ overflow_checks \in BOOLEAN
    /\ call \in RangeCalls
    /\ ret = Pending
    /\ InitWorld

ValidateRange ==
    /\ call.op = "validate_texture_copy_range"
    /\ ret = Pending
    /\ ret' = validate_texture_copy_range(call.view, call.desc, call.side, call.copy_size)
    /\ UNCHANGED <<threads, overflow_checks, call, world>>

SpecRange == InitRange /\ [][ValidateRange]_vars

(***************************************************************************)
(* Specification of the helper functions: get_greatest_common_divisor,     *)
(* get_lowest_common_denom and align_to of queue.rs, and                   *)
(* extract_texture_selector of transfer.rs on a store whose texture T1 is  *)
(* a depth-stencil 2D, a 3D or a 1D texture.  Init draws the arguments,    *)
(* the action applies the function.  A u32 remainder by zero panics in     *)
(* every build; a u32 sum or product past the word panics in a build with  *)
(* overflow checks and wraps otherwise.                                    *)
(***************************************************************************)
\* The lists of ranges of one buffer that reach initialize_buffer_memory, in
\* any order: the pairwise non-overlapping ones, and every list of two.
ByteRanges == {r \in (0 .. MaxPoint) \X (0 .. MaxPoint) : r[1] < r[2]}

NonOverlapping(ranges) ==
    \A i, j \in DOMAIN ranges :
        i # j => ranges[i][2] <= ranges[j][1] \/ ranges[j][2] <= ranges[i][1]

RangeLists ==
    [1 .. 2 -> ByteRanges]
    \cup UNION {{ranges \in [1 .. n -> ByteRanges] : NonOverlapping(ranges)} : n \in 0 .. MaxRanges}

InitHelpers ==
    /\ call \in [op : {"get_greatest_common_divisor", "get_lowest_common_denom", "align_to"},
                  a : (0 .. MaxOperand) \cup {U32Mod - 2, U32Mod - 1},
                  b : (0 .. MaxOperand) \cup {U32Mod - 2, U32Mod - 1}]
                 \cup [op : {"extract_texture_selector"},
                       copy_texture : [texture : TextureIds \cup {InvalidTextureId},
                                       mip_level : {0, 1, U32Mod - 1},
                                       origin : [x : {0, 4}, y : {0, 4}, z : {0, 1, 3, U32Mod - 1}],
                                       aspect : {"All", "DepthOnly", "StencilOnly"}],
                       copy_size : [width : {4}, height : {4},
                                    depth_or_array_layers : {0, 1, 2}]]
                 \cup [op : {"initialize_buffer_memory"}, ranges : RangeLists]
    /\ overflow_checks \in IF call.op = "initialize_buffer_memory" THEN {FALSE} ELSE BOOLEAN
    /\ ret = Pending
    /\ hal_calls = <<>>
    /\ buffers = InitBuffers
    /\ textures \in IF call.op # "extract_texture_selector" THEN {InitTextures}
                     ELSE {[InitTextures EXCEPT !["T1"] = Texture(desc)] :
                              desc \in {InitTextures["T1"].desc,
                                        Desc("Rgba8Unorm", "D3", Extent(8, 8, 4), 2, {"COPY_SRC"}),
                                        Desc("R8Unorm", "D1", Extent(16, 1, 1), 1, {"COPY_DST"})}}
    /\ command_buffers = [e \in CommandBufferIds |-> CommandBuffer("Recording")]
    /\ device = InitDevice
    /\ queue = InitQueue
    /\ threads = [t \in 1 .. MaxThreads |-> [call |-> [op |-> "none"], pc |-> 0, held |-> {}]]

ApplyHelper ==
    /\ ret = Pending
    /\ call.op \in {"get_greatest_common_divisor", "get_lowest_common_denom", "align_to",
                     "extract_texture_selector", "initialize_buffer_memory"}
    /\ ret' =
          CASE call.op = "get_greatest_common_divisor" ->
                 \* queue.rs 879: assert!(a >= b); 881: a % b
                 IF call.a < call.b \/ call.b = 0 THEN Panic
                 ELSE Ok(get_greatest_common_divisor(call.a, call.b))
            [] call.op = "get_lowest_common_denom" ->
                 \* queue.rs 870-874: the remainder by zero of the divisor; 875: a * b
                 IF call.a = 0 \/ call.b = 0 THEN Panic
                 ELSE IF overflow_checks /\ call.a * call.b >= U32Mod THEN Panic
                 ELSE Ok(get_lowest_common_denom(call.a, call.b))
            [] call.op = "align_to" ->
                 \* queue.rs 892: value % alignment; 894: value - other + alignment
                 IF call.b = 0 THEN Panic
                 ELSE IF /\ overflow_checks
                         /\ call.a % call.b # 0
                         /\ call.a - (call.a % call.b) + call.b >= U32Mod
                     THEN Panic
                 ELSE Ok(align_to(call.a, call.b))
            [] call.op = "extract_texture_selector" ->
                 extract_texture_selector(call.copy_texture, call.copy_size)
            [] call.op = "initialize_buffer_memory" ->
                 \* queue.rs 240-247: sort, assert and collapse; the ranges left are
                 \* the ones passed to fill_buffer (265-271)
                 LET sorted == SortRanges(call.ranges)
                 IN  IF \E j \in 2 .. Len(sorted) : sorted[j - 1][2] > sorted[j][1]
                     THEN Panic
                     ELSE Ok(CollapseTouching(sorted, Len(sorted)))
    /\ UNCHANGED <<threads, overflow_checks, call, world>>

SpecHelpers == InitHelpers /\ [][ApplyHelper]_vars

(***************************************************************************)
(* Specification of queue_write_texture as one call: Init draws the format *)
(* of T0, the device's buffer_copy_pitch alignment and the arguments, the  *)
(* action is the call.                                                     *)
(***************************************************************************)
InitStage ==
    /\ overflow_checks \in BOOLEAN
    /\ call \in [op : {"queue_write_texture"}, queue_id : {QueueId},
                  destination : {ImageCopyTexture("T0", 0), ImageCopyTexture("T0", 1)},
                  data_len : {4, 64, 1024, 8192},
                  data_layout : [offset : {0, 4}, bytes_per_row : {NoneNZ, 4, 16, 64, 256},
                                 rows_per_image : {NoneNZ, 1, 4, 16}],
                  size : [width : {1, 4, 16, U32Mod \div 4}, height : {1, 4, 16},
                          depth_or_array_layers : {1, 2}],
                  backend_fault : {"none"}]
    /\ ret = Pending
    /\ hal_calls = <<>>
    /\ buffers = InitBuffers
    /\ textures \in {[InitTextures EXCEPT !["T0"].desc.format = format] :
                         format \in {"Rgba8Unorm", "R8Unorm", "Bc1RgbaUnorm"}}
    /\ command_buffers = [e \in CommandBufferIds |-> CommandBuffer("Recording")]
    /\ device \in {[InitDevice EXCEPT !.alignments.buffer_copy_pitch = pitch] :
                       pitch \in {16, 64}}
    /\ queue = InitQueue
    /\ threads = [t \in 1 .. MaxThreads |-> [call |-> [op |-> "none"], pc |-> 0, held |-> {}]]

NextStage == ret = Pending /\ QueueWriteTexture(call) /\ UNCHANGED call

SpecStage == InitStage /\ [][NextStage]_vars

(***************************************************************************)
(*                              PROPERTIES                                 *)
(***************************************************************************)

\* The arguments of a validate_linear_texture_data call, as the claims name them.
LinearDone == call.op = "validate_linear_texture_data" /\ ret # Pending
LinBlockWidth == describe(call.format).block_dimensions[1]
LinBlockHeight == describe(call.format).block_dimensions[2]
LinBytesPerBlock == describe(call.format).block_size
LinWidthInBlocks == call.copy_size.width \div LinBlockWidth
LinHeightInBlocks == call.copy_size.height \div LinBlockHeight
LinCopyDepth == call.copy_size.depth_or_array_layers
LinBprAbsent == call.layout.bytes_per_row = NoneNZ
LinRpiAbsent == call.layout.rows_per_image = NoneNZ
LinBytesPerRow ==
    IF LinBprAbsent THEN LinBytesPerBlock * LinWidthInBlocks ELSE call.layout.bytes_per_row
LinRowsPerImage ==
    IF LinRpiAbsent THEN LinHeightInBlocks ELSE call.layout.rows_per_image
LinNonZero ==
    call.copy_size.width # 0 /\ call.copy_size.height # 0 /\ LinCopyDepth # 0

RangeDone == call.op = "validate_texture_copy_range" /\ ret # Pending
RangeVirtual == mip_level_size(call.desc, call.view.mip_level)
RangePhysical == physical_size(RangeVirtual, call.desc.format)

\* C2: on success copy_extent.width = min(copy_size.width, virtual.width) and
\* copy_extent.height = min(copy_size.height, virtual.height).
C2_ExtentClampedToVirtual ==
    (RangeDone /\ ret.ok) =>
        /\ ret.val.copy_extent.width = Min(call.copy_size.width, RangeVirtual.width)
        /\ ret.val.copy_extent.height = Min(call.copy_size.height, RangeVirtual.height)

\* C6: bytes_per_row absent and (copy_depth > 1 or height_in_blocks > 1)
\* fails with UnspecifiedBytesPerRow.
C6_UnspecifiedBytesPerRow ==
    (LinearDone /\ LinBprAbsent /\ (LinCopyDepth > 1 \/ LinHeightInBlocks > 1))
        => ret.kind = "UnspecifiedBytesPerRow"

C6_Witness ==
    /\ LinearDone /\ LinBprAbsent
    /\ LinCopyDepth > 1 /\ LinHeightInBlocks = 1 /\ ~LinRpiAbsent
    /\ ret.kind = "UnspecifiedBytesPerRow"

\* C7 as stated: copy_depth > 1 and rows_per_image absent fails with
\* UnspecifiedRowsPerImage, whatever the other inputs are.
C7_Original ==
    (LinearDone /\ LinCopyDepth > 1 /\ LinRpiAbsent)
        => ret.kind = "UnspecifiedRowsPerImage"

\* C7 amended: copy_depth > 1, rows_per_image absent and bytes_per_row supplied
\* fails with UnspecifiedRowsPerImage; with bytes_per_row absent as well the
\* result is UnspecifiedBytesPerRow.
C7_UnspecifiedRowsPerImage ==
    (LinearDone /\ LinCopyDepth > 1 /\ LinRpiAbsent) =>
        ret.kind = IF LinBprAbsent THEN "UnspecifiedBytesPerRow"
                                   ELSE "UnspecifiedRowsPerImage"

C7_Witness ==
    /\ LinearDone /\ LinCopyDepth > 1 /\ LinRpiAbsent /\ ~LinBprAbsent
    /\ ret.kind = "UnspecifiedRowsPerImage"

\* C8 as stated: with need_row_alignment, success implies that the resolved
\* bytes_per_row is a multiple of COPY_BYTES_PER_ROW_ALIGNMENT, and otherwise
\* (it is not a multiple) the result is UnalignedBytesPerRow.
C8_Original ==
    (LinearDone /\ call.need_copy_aligned_rows) =>
        /\ ret.ok => LinBytesPerRow % COPY_BYTES_PER_ROW_ALIGNMENT = 0
        /\ LinBytesPerRow % COPY_BYTES_PER_ROW_ALIGNMENT # 0
              => ret.kind = "UnalignedBytesPerRow"

\* C8 amended: with need_row_alignment, success implies that the resolved
\* bytes_per_row is a multiple of COPY_BYTES_PER_ROW_ALIGNMENT; when it is not,
\* the result is UnalignedBytesPerRow unless one of the checks made before it
\* fails (UnspecifiedBytesPerRow, UnspecifiedRowsPerImage, UnalignedCopyWidth,
\* UnalignedCopyHeight).
C8_RowAlignment ==
    (LinearDone /\ call.need_copy_aligned_rows) =>
        /\ ret.ok => LinBytesPerRow % COPY_BYTES_PER_ROW_ALIGNMENT = 0
        /\ LinBytesPerRow % COPY_BYTES_PER_ROW_ALIGNMENT # 0
              => ret.kind \in {"UnalignedBytesPerRow", "UnspecifiedBytesPerRow",
                               "UnspecifiedRowsPerImage", "UnalignedCopyWidth",
                               "UnalignedCopyHeight"}
        /\ ( /\ LinBytesPerRow % COPY_BYTES_PER_ROW_ALIGNMENT # 0
             /\ ~(LinBprAbsent /\ (LinCopyDepth > 1 \/ LinHeightInBlocks > 1))
             /\ ~(LinRpiAbsent /\ LinCopyDepth > 1)
             /\ call.copy_size.width % LinBlockWidth = 0
             /\ call.copy_size.height % LinBlockHeight = 0 )
              => ret.kind = "UnalignedBytesPerRow"

C8_Witness ==
    /\ LinearDone /\ call.need_copy_aligned_rows
    /\ call.layout.bytes_per_row = 64 /\ call.copy_size.width = 16
    /\ call.copy_size.height > 1
    /\ ret.kind = "UnalignedBytesPerRow"

\* C9: success implies origin + size <= physical extent on every axis, the
\* sums taken as mathematical integers; a violated axis yields TextureOverrun
\* for that axis.
C9_NoOverrunPasses ==
    (RangeDone /\ ret.kind # "Panic"
       /\ call.view.mip_level < call.desc.mip_level_count) =>
        LET o == call.view.origin
            xbad == o.x + call.copy_size.width > RangePhysical.width
            ybad == o.y + call.copy_size.height > RangePhysical.height
            zbad == o.z + call.copy_size.depth_or_array_layers
                        > RangePhysical.depth_or_array_layers
        IN  /\ ret.ok => ~xbad /\ ~ybad /\ ~zbad
            /\ (xbad \/ ybad \/ zbad) =>
                 /\ ret.kind = "TextureOverrun"
                 /\ ret.info.dimension =
                      IF xbad THEN "X" ELSE IF ybad THEN "Y" ELSE "Z"

CopyDone == call.op \in {"copy_buffer_to_buffer", "copy_buffer_to_texture",
                         "copy_texture_to_buffer", "copy_texture_to_texture"}
            /\ ret # Pending

\* The call is made on a valid command encoder that is recording.
OnRecordingEncoder ==
    /\ call.command_encoder_id \in CommandBufferIds
    /\ command_buffers[call.command_encoder_id].status = "Recording"

ImageCopyDone == CopyDone /\ call.op # "copy_buffer_to_buffer"

BufferCopyDone == CopyDone /\ call.op = "copy_buffer_to_buffer"

\* The copy the call asks for moves nothing.
IsZeroCopy ==
    IF call.op = "copy_buffer_to_buffer" THEN call.size = 0
    ELSE \/ call.copy_size.width = 0
         \/ call.copy_size.height = 0
         \/ call.copy_size.depth_or_array_layers = 0

BufferCopyArgumentsValid ==
    /\ call.source # call.destination
    /\ call.source \in BufferIds /\ call.destination \in BufferIds
    /\ buffers[call.source].raw /\ buffers[call.destination].raw
    /\ "COPY_SRC" \in buffers[call.source].usage
    /\ "COPY_DST" \in buffers[call.destination].usage
    /\ call.size % 4 = 0 /\ call.source_offset % 4 = 0 /\ call.destination_offset % 4 = 0
    /\ call.source_offset + call.size <= buffers[call.source].size
    /\ call.destination_offset + call.size <= buffers[call.destination].size

C5_RecordedCopyInBounds ==
    BufferCopyDone =>
        /\ \A i \in DOMAIN hal_calls :
              hal_calls[i].cmd = "copy_buffer_to_buffer" =>
                  \A k \in DOMAIN hal_calls[i].items :
                      LET region == hal_calls[i].items[k]
                      IN  /\ region.size % 4 = 0
                          /\ region.src_offset % 4 = 0
                          /\ region.dst_offset % 4 = 0
                          /\ region.src_offset + region.size <= buffers[hal_calls[i].src].size
                          /\ region.dst_offset + region.size <= buffers[hal_calls[i].dst].size
        /\ (call.size % 4 # 0 /\ ret.kind = "UnalignedCopySize") => ret.info.size = call.size

\* The operations whose validation failures the error contract speaks of.
ValidatedOps ==
    {"copy_buffer_to_buffer", "copy_buffer_to_texture", "copy_texture_to_buffer",
     "copy_texture_to_texture", "queue_write_buffer", "queue_write_texture"}

\* This step is a call of one of these operations that returns an error.
ValidatedOpFails ==
    /\ ret = Pending
    /\ call'.op \in ValidatedOps
    /\ ~ret'.ok /\ ret' # Pending /\ ret' # Panic

\* C3 as stated: whenever one of the four copies, write_buffer or
\* write_texture returns an error, the trackers (of every command buffer and
\* of the device), every command buffer's buffer_memory_init_actions and the
\* life-guard of every buffer and texture are as they were before the call.
C3_ErrorLeavesStateUntouched ==
    [][ValidatedOpFails =>
           /\ \A e \in CommandBufferIds :
                 /\ command_buffers'[e].trackers = command_buffers[e].trackers
                 /\ command_buffers'[e].buffer_memory_init_actions
                       = command_buffers[e].buffer_memory_init_actions
           /\ device'.trackers = device.trackers
           /\ \A b \in BufferIds :
                 buffers'[b].submission_index = buffers[b].submission_index
           /\ \A t \in TextureIds :
                 textures'[t].submission_index = textures[t].submission_index]_vars

\* This step is a queue_submit call on the device's queue.
SubmitCalled ==
    /\ ret = Pending
    /\ call'.op = "queue_submit"
    /\ call'.queue_id = QueueId

\* C10: active_submission_index never decreases, every queue_submit call on
\* the device, successful or failing, raises it by exactly 1 and nothing else
\* moves it, and each index handed to the backend queue.submit with the fence
\* is the index of that call and greater than the one handed over before.
C10_SubmissionIndexIncreases ==
    [][/\ device'.active_submission_index >= device.active_submission_index
       /\ SubmitCalled =>
              device'.active_submission_index = device.active_submission_index + 1
       /\ ~SubmitCalled =>
              device'.active_submission_index = device.active_submission_index
       /\ queue'.submissions # queue.submissions =>
              /\ SubmitCalled
              /\ queue'.submissions = queue.submissions + 1
              /\ queue'.fence_value = device'.active_submission_index
              /\ queue'.fence_value > queue.fence_value]_vars

\* A submit failed at index 1, and the next one has handed index 2 to the
\* backend queue.
C10_Witness ==
    /\ call.op = "queue_submit"
    /\ ret = Ok(NoVal)
    /\ device.active_submission_index = 2
    /\ queue.submissions = 1
    /\ queue.fence_value = 2

\* The labels queue_submit is to hand over for the command buffers `ids`,
\* read off the command buffers as they are before the call.
RECURSIVE ExpectedExecutions(_)
ExpectedExecutions(ids) ==
    IF ids = <<>> THEN <<>>
    ELSE (IF /\ Head(ids) \in CommandBufferIds
             /\ command_buffers[Head(ids)].status = "Finished"
          THEN <<"_Transit">> \o Labels(command_buffers[Head(ids)].list)
          ELSE <<>>)
         \o ExpectedExecutions(Tail(ids))

\* The backend submit call among the calls of an operation, if any.
SubmitCallsIn(calls) == SelectSeq(calls, LAMBDA h: h.cmd = "submit")

\* C11: the array queue_submit hands to the backend queue.submit starts with
\* the pending-writes command buffer exactly when pending writes were active
\* before the call or were activated during it to record the zero-fills, and
\* goes on with the finished command buffers in the order of
\* command_buffer_ids, the transit command buffer of each right before that
\* command buffer's own list.
C11_SubmitOrder ==
    [][SubmitCalled =>
           \A k \in DOMAIN hal_calls' :
               hal_calls'[k].cmd = "submit" =>
                   hal_calls'[k].items[1] =
                       (IF \/ device.pending_writes.is_active
                           \/ \E j \in DOMAIN hal_calls' :
                                  /\ hal_calls'[j].cmd = "begin_encoding"
                                  /\ hal_calls'[j].src = "_PendingWrites"
                        THEN <<"_PendingWrites">> ELSE <<>>)
                       \o ExpectedExecutions(call'.command_buffer_ids)]_vars

\* A submit of E1 and E0, in that order, that zero-fills: the pending writes,
\* the transit of E1, E1, the transit of E0, E0.
C11_Witness ==
    /\ call.op = "queue_submit"
    /\ ret = Ok(NoVal)
    /\ \E j \in DOMAIN hal_calls : hal_calls[j].cmd = "fill_buffer"
    /\ SubmitCallsIn(hal_calls) # <<>>
    /\ SubmitCallsIn(hal_calls)[1].items[1]
           = <<"_PendingWrites", "_Transit", "E1", "_Transit", "E0">>

\* The finished command buffers among `ids`, in order.
FinishedIds(ids) ==
    SelectSeq(ids, LAMBDA id: id \in CommandBufferIds /\ command_buffers[id].status = "Finished")

\* The buffer barriers of the transit command buffers among the calls, in order.
TransitBarriers(calls) ==
    LET at == SelectSeq([k \in DOMAIN calls |-> k],
                        LAMBDA k: /\ k > 1
                                  /\ calls[k].cmd = "transition_buffers"
                                  /\ calls[k - 1].cmd = "begin_encoding"
                                  /\ calls[k - 1].src = "_Transit")
    IN  [n \in DOMAIN at |-> calls[at[n]].items]

\* C12: barrier stitching, for the pairs within one submission.  The command
\* buffers of a successful queue_submit run in the order pending writes (the
\* queued writes and the zero-fills of this submit), then the finished command
\* buffers.  For a command buffer that uses a buffer and the nearest command
\* buffer before it in that order that touches the same buffer, the transit
\* command buffer of the later one holds a barrier on the buffer if and only
\* if the usage the earlier one ends in differs from the usage the later one
\* starts in.
C12_BarrierStitching ==
    [][SubmitCalled /\ ret'.ok =>
           LET fin == FinishedIds(call'.command_buffer_ids)
               transits == TransitBarriers(hal_calls')
               unit(n, b) == command_buffers[fin[n]].trackers.buffers[b]
               written(b) ==
                   \/ b \in device.pending_writes.dst_buffers
                   \/ \E k \in DOMAIN hal_calls' :
                          hal_calls'[k].cmd = "fill_buffer" /\ hal_calls'[k].dst = b
               earlier(n, b) == {m \in 1 .. (n - 1) : Tracked(unit(m, b))}
               previous(n, b) ==
                   IF earlier(n, b) # {}
                   THEN unit(CHOOSE m \in earlier(n, b) : \A o \in earlier(n, b) : o <= m, b).last
                   ELSE "COPY_DST"
           IN  \A b \in BufferIds : \A n \in DOMAIN fin :
                   Tracked(unit(n, b)) /\ (earlier(n, b) # {} \/ written(b)) =>
                       ((\E i \in DOMAIN transits[n] : transits[n][i].id = b)
                            <=> previous(n, b) # unit(n, b).first)]_vars

\* The negation's case: a submit zero-fills a buffer in the pending writes
\* and a command buffer of the same submit reads the buffer with no barrier
\* in its transit command buffer.
C12_MissingBarrier ==
    /\ call.op = "queue_submit"
    /\ ret = Ok(NoVal)
    /\ \E k \in DOMAIN hal_calls : hal_calls[k].cmd = "fill_buffer" /\ hal_calls[k].dst = "B0"
    /\ Len(TransitBarriers(hal_calls)) = 1
    /\ TransitBarriers(hal_calls)[1] = <<>>

\* The zero-fills among the calls of an operation.
FillCallsIn(calls) == SelectSeq(calls, LAMBDA h: h.cmd = "fill_buffer")

\* The range r lies inside one range of the uninitialized set.
InsideUninitialized(r, uninit) ==
    \E k \in DOMAIN uninit : uninit[k][1] <= r[1] /\ r[2] <= uninit[k][2]

\* The NeedsInitializedMemory actions the command buffers hold.
RecordedNeeds ==
    {a \in UNION {{command_buffers[id].buffer_memory_init_actions[k] :
                      k \in DOMAIN command_buffers[id].buffer_memory_init_actions} :
                  id \in CommandBufferIds} :
        a.kind = "NeedsInitializedMemory"}

\* C13: folding a NeedsInitializedMemory action into RequiredBufferInits a
\* second time leaves the buffer's uninitialized set as the first fold left
\* it and adds no range to zero-fill; and no byte is zero-filled twice: the
\* zero-fills of one queue_submit are pairwise disjoint, lie in what was
\* uninitialized before the call and outside what is uninitialized after it,
\* and no step makes an initialized byte uninitialized again.
C13_InitFoldIdempotent ==
    [][/\ \A a \in RecordedNeeds :
              LET s0 == [buffers |-> buffers,
                         required |-> [b \in BufferIds |-> [present |-> FALSE, ranges |-> <<>>]]]
                  s1 == AddBufferInit(s0, a)
                  s2 == AddBufferInit(s1, a)
              IN  /\ s2.buffers = s1.buffers
                  /\ s2.required = s1.required
       /\ \A b \in BufferIds :
              \A k \in DOMAIN buffers'[b].initialization_status :
                  InsideUninitialized(buffers'[b].initialization_status[k],
                                      buffers[b].initialization_status)
       /\ SubmitCalled =>
              LET fills == FillCallsIn(hal_calls')
              IN  /\ \A i, j \in DOMAIN fills :
                         i # j /\ fills[i].dst = fills[j].dst =>
                             \/ fills[i].items[1][2] <= fills[j].items[1][1]
                             \/ fills[j].items[1][2] <= fills[i].items[1][1]
                  /\ \A i \in DOMAIN fills :
                         /\ InsideUninitialized(fills[i].items[1],
                                                buffers[fills[i].dst].initialization_status)
                         /\ MemoryInitCheck(buffers'[fills[i].dst].initialization_status,
                                            fills[i].items[1][1], fills[i].items[1][2]) = <<>>]_vars

\* E0 and E1 both read bytes 0..4 of B0 and were submitted together: one
\* zero-fill of 0..4.
C13_Witness ==
    /\ call.op = "queue_submit"
    /\ ret = Ok(NoVal)
    /\ Len(call.command_buffer_ids) = 2
    /\ Len(SubmitCallsIn(hal_calls)[1].items[1]) = 5
    /\ Len(FillCallsIn(hal_calls)) = 1
    /\ FillCallsIn(hal_calls)[1].dst = "B0"
    /\ FillCallsIn(hal_calls)[1].items[1] = <<0, 4>>
    /\ buffers["B0"].initialization_status = <<<<4, 512>>>>

\* C14: in every reachable state each buffer's uninitialized ranges are
\* non-empty, sorted, disjoint and have endpoints that are multiples of 4,
\* every range handed to fill_buffer has such endpoints, and no queue_submit
\* stops on an assertion of initialize_buffer_memory.
C14_UninitializedRangesAligned ==
    /\ \A b \in BufferIds :
           LET uninit == buffers[b].initialization_status
           IN  \A k \in DOMAIN uninit :
                   /\ uninit[k][1] < uninit[k][2]
                   /\ uninit[k][1] % 4 = 0
                   /\ uninit[k][2] % 4 = 0
                   /\ k > 1 => uninit[k - 1][2] <= uninit[k][1]
    /\ \A k \in DOMAIN hal_calls :
           hal_calls[k].cmd = "fill_buffer" =>
               hal_calls[k].items[1][1] % 4 = 0 /\ hal_calls[k].items[1][2] % 4 = 0
    /\ ~(call.op = "queue_submit" /\ ret = Panic)

\* The two ways the statement fails: a submit that stops on the assertion,
\* and a submit that returns with an unaligned range left uninitialized.
C14_AssertionFails == call.op = "queue_submit" /\ ret = Panic

C14_UnalignedLeft ==
    /\ call.op = "queue_submit"
    /\ ret = Ok(NoVal)
    /\ \E k \in DOMAIN buffers["B1"].initialization_status :
           buffers["B1"].initialization_status[k][1] % 4 # 0

\* This step is a queue_write_buffer call.
WriteBufferCalled == ret = Pending /\ call'.op = "queue_write_buffer"

\* C15: when queue_write_buffer returns success the written range is absent
\* from the buffer's uninitialized set, and no later queue_submit zero-fills
\* any of it: a range that has left the uninitialized set never comes back,
\* and every fill_buffer of a queue_submit lies inside what was uninitialized
\* when the call began.
C15_WriteNotZeroFilled ==
    [][/\ WriteBufferCalled /\ ret'.ok =>
              MemoryInitCheck(buffers'[call'.buffer_id].initialization_status,
                              call'.buffer_offset,
                              call'.buffer_offset + call'.data_size) = <<>>
       /\ \A b \in BufferIds : \A start, end \in {0, 4, 8} :
              MemoryInitCheck(buffers[b].initialization_status, start, end) = <<>> =>
                  MemoryInitCheck(buffers'[b].initialization_status, start, end) = <<>>
       /\ SubmitCalled =>
              \A k \in DOMAIN hal_calls' :
                  hal_calls'[k].cmd = "fill_buffer" =>
                      InsideUninitialized(hal_calls'[k].items[1],
                                          buffers[hal_calls'[k].dst].initialization_status)]_vars

\* Bytes 0..4 of B0 were written through the queue, and a submit of two
\* command buffers that read B0 zero-fills the bytes 4..8 next to them and
\* nothing else.
C15_Witness ==
    /\ call.op = "queue_submit"
    /\ ret = Ok(NoVal)
    /\ device.staging_buffers > 0
    /\ Len(call.command_buffer_ids) = 2
    /\ Len(SubmitCallsIn(hal_calls)[1].items[1]) = 5
    /\ Len(FillCallsIn(hal_calls)) = 1
    /\ FillCallsIn(hal_calls)[1].dst = "B0"
    /\ FillCallsIn(hal_calls)[1].items[1] = <<4, 8>>

\* The members of a sequence.
Members(seq) == {seq[k] : k \in DOMAIN seq}

\* C16: a staging buffer created by queue_write_buffer or queue_write_texture
\* is among the temp resources of the pending writes when the call returns,
\* whatever the call returns; the temp resources stay there until a
\* queue_submit succeeds, and that submit hands them all over.
C16_StagingRetired ==
    [][/\ device'.staging_buffers > device.staging_buffers =>
              Staging(device'.staging_buffers)
                  \in Members(device'.pending_writes.temp_resources)
       /\ IF SubmitCalled /\ ret'.ok
          THEN device'.pending_writes.temp_resources = <<>>
          ELSE Members(device.pending_writes.temp_resources)
                   \subseteq Members(device'.pending_writes.temp_resources)]_vars

\* The negation's case: a write has returned an error with its staging
\* buffer created and kept nowhere.
C16_StagingDropped ==
    /\ call.op \in {"queue_write_buffer", "queue_write_texture"}
    /\ ~ret.ok
    /\ device.staging_buffers = 1
    /\ device.pending_writes.temp_resources = <<>>
    /\ device.life_tracker = <<>>

\* C17: in every reachable state the pending writes hold at most
\* WRITE_COMMAND_BUFFERS_PER_POOL finished command buffers, also after calls
\* in which the backend queue.submit fails, and fewer than that after a
\* queue_submit that returns success.
C17_PoolBounded ==
    /\ Len(device.pending_writes.executing_command_buffers) <= WRITE_COMMAND_BUFFERS_PER_POOL
    /\ call.op = "queue_submit" /\ ret.ok =>
           Len(device.pending_writes.executing_command_buffers) < WRITE_COMMAND_BUFFERS_PER_POOL

\* The part of the statement that stands: fewer than the pool size after a
\* queue_submit that returns success.
C17_RecycledOnSuccess ==
    call.op = "queue_submit" /\ ret.ok =>
        Len(device.pending_writes.executing_command_buffers) < WRITE_COMMAND_BUFFERS_PER_POOL

\* The pool is recycled: a successful submit has emptied a list that had
\* reached the pool size.
C17_Recycled ==
    /\ call.op = "queue_submit"
    /\ ret.ok
    /\ device.active_submission_index >= WRITE_COMMAND_BUFFERS_PER_POOL
    /\ device.pending_writes.executing_command_buffers = <<>>

(***************************************************************************)
(* C18, C19: locking (specification SpecLocks).                            *)
(***************************************************************************)
CopyOps == {"copy_buffer_to_buffer", "copy_buffer_to_texture", "copy_texture_to_buffer", "copy_texture_to_texture"}

QueueOps == {"queue_write_buffer", "queue_write_texture", "queue_submit"}

\* The thread is inside the body of its operation: it has taken the first
\* lock of the operation and has not returned.
InBody(t) == threads[t].pc >= 2

\* The thread holds the lock in the mode.
Holds(t, lock, mode) == <<lock, mode>> \in threads[t].held

\* The thread is in queue_submit and past the release of the device
\* registry: it fires the map callbacks or returns.
FiringCallbacks(t) ==
    /\ threads[t].call.op = "queue_submit"
    /\ threads[t].pc >= 2
    /\ threads[t].held = {}

\* C18 as stated: no two threads are inside the bodies of two of the seven
\* operations at the same time.
C18_Serialized ==
    \A t, u \in 1 .. MaxThreads : t # u => ~(InBody(t) /\ InBody(u))

\* C18: two queue operations (write_buffer, write_texture, queue_submit up
\* to its release of the device registry) are never inside their bodies at
\* the same time, each holding the write lock of the device registry; two
\* copy-recording operations are never inside their bodies at the same time,
\* each holding the write lock of the command-buffer registry; and no
\* copy-recording operation is inside its body while queue_submit holds the
\* write lock of the command-buffer registry.
C18_SerializedByRegistry ==
    /\ \A t \in 1 .. MaxThreads :
          /\ InBody(t) /\ threads[t].call.op \in QueueOps /\ ~FiringCallbacks(t)
                => Holds(t, "devices", "write")
          /\ InBody(t) /\ threads[t].call.op \in CopyOps
                => Holds(t, "command_buffers", "write")
    /\ \A t, u \in 1 .. MaxThreads :
          t # u /\ InBody(t) /\ InBody(u) =>
              /\ ~(/\ threads[t].call.op \in QueueOps /\ ~FiringCallbacks(t)
                   /\ threads[u].call.op \in QueueOps /\ ~FiringCallbacks(u))
              /\ ~(threads[t].call.op \in CopyOps /\ threads[u].call.op \in CopyOps)
              /\ ~(threads[t].call.op \in CopyOps /\ Holds(u, "command_buffers", "write"))

\* Two threads are in queue operations: one is inside write_buffer with the
\* trackers locked, the other has called queue_submit and waits for the
\* device registry.
C18_Witness ==
    \E t, u \in 1 .. MaxThreads :
        /\ t # u
        /\ threads[t].call.op = "queue_write_buffer"
        /\ Holds(t, "devices", "write")
        /\ Holds(t, "trackers", "lock")
        /\ threads[u].call.op = "queue_submit"
        /\ threads[u].pc = 1

\* The global order of the locks: the registries in the order of the hub,
\* then the device's trackers mutex.
LockRank(lock) ==
    CASE lock = "devices" -> 1
      [] lock = "swap_chains" -> 2
      [] lock = "command_buffers" -> 3
      [] lock = "render_bundles" -> 4
      [] lock = "pipeline_layouts" -> 5
      [] lock = "bind_groups" -> 6
      [] lock = "compute_pipelines" -> 7
      [] lock = "render_pipelines" -> 8
      [] lock = "buffers" -> 9
      [] lock = "textures" -> 10
      [] lock = "texture_views" -> 11
      [] lock = "samplers" -> 12
      [] lock = "query_sets" -> 13
      [] lock = "trackers" -> 14

\* The step the thread is at is the acquisition of a lock.
Acquiring(t) ==
    /\ threads[t].pc \in 1 .. Len(LockSteps(threads[t].call))
    /\ LockSteps(threads[t].call)[threads[t].pc].kind = "acquire"

\* The locks and the mode the thread is about to acquire.
Wanted(t) == LockSteps(threads[t].call)[threads[t].pc]

\* Thread t waits for thread u: u holds a lock t is about to acquire, and
\* not both for reading.
Waits(t, u) ==
    /\ Acquiring(t)
    /\ \E h \in threads[u].held :
          /\ h[1] \in Wanted(t).locks
          /\ ~(t # u /\ Wanted(t).mode = "read" /\ h[2] = "read")

\* A set of threads each waiting for a lock another one of the set holds.
WaitCycle ==
    \E S \in SUBSET (1 .. MaxThreads) :
        /\ S # {}
        /\ \A t \in S : \E u \in S : Waits(t, u)

Names(c) ==
    CASE c.op = "copy_buffer_to_buffer" -> {c.source, c.destination}
      [] c.op = "copy_buffer_to_texture" -> {c.source.buffer, c.destination.texture}
      [] c.op = "copy_texture_to_buffer" -> {c.source.texture, c.destination.buffer}
      [] c.op = "copy_texture_to_texture" -> {c.source.texture, c.destination.texture}
      [] c.op = "queue_write_buffer" -> {c.buffer_id}
      [] c.op = "queue_write_texture" -> {c.destination.texture}

\* The backend handle of the resource is absent.
Destroyed(r) ==
    \/ r \in BufferIds /\ ~buffers[r].raw
    \/ r \in TextureIds /\ ~textures[r].raw

\* A copy-recording operation or a queue write is called.
TransferCalled == ret = Pending /\ call'.op \in CopyOps \cup {"queue_write_buffer", "queue_write_texture"}

\* One of the backend calls is a copy from or into the resource.
CopiesNaming(calls, r) ==
    \E i \in DOMAIN calls :
        /\ calls[i].cmd \in CopyOps
        /\ calls[i].src = r \/ calls[i].dst = r

\* The trackers of the command buffer reference a destroyed resource.
ReferencesDestroyed(e) ==
    \/ \E b \in BufferIds : Tracked(command_buffers[e].trackers.buffers[b]) /\ Destroyed(b)
    \/ \E t \in TextureIds :
          /\ \E i \in DOMAIN command_buffers[e].trackers.textures[t] :
                Tracked(command_buffers[e].trackers.textures[t][i])
          /\ Destroyed(t)

\* No backend queue.submit of the call takes a command buffer whose trackers
\* reference a destroyed resource, and the call fails with DestroyedBuffer or
\* DestroyedTexture when a finished command buffer of its list is one.
SubmitRejectsDestroyed ==
    SubmitCalled =>
        /\ \A i \in DOMAIN hal_calls' :
              hal_calls'[i].cmd = "submit" =>
                  \A k \in DOMAIN hal_calls'[i].items[1] :
                      hal_calls'[i].items[1][k] \in CommandBufferIds
                          => ~ReferencesDestroyed(hal_calls'[i].items[1][k])
        /\ (\E k \in DOMAIN call'.command_buffer_ids :
                /\ command_buffers[call'.command_buffer_ids[k]].status = "Finished"
                /\ ReferencesDestroyed(call'.command_buffer_ids[k]))
              => ret'.kind \in {"DestroyedBuffer", "DestroyedTexture"}

\* The call gets to the check of the resources it names: its encoder is
\* recording, and it is not a texture copy or queue write of size zero, which
\* is ignored before the resources are looked at.
ReachesCheck(c) ==
    /\ c.op \in CopyOps => command_buffers[c.command_encoder_id].status = "Recording"
    /\ c.op \in CopyOps \ {"copy_buffer_to_buffer"} => ~ZeroExtent(c.copy_size)
    /\ c.op = "queue_write_buffer" => c.data_size # 0
    /\ c.op = "queue_write_texture" => ~ZeroExtent(c.size)

\* C20 as stated: a copy-recording operation or queue write that names a
\* destroyed resource records no backend copy that names it and fails with
\* InvalidBuffer or InvalidTexture; queue_submit passes no command buffer
\* whose trackers reference a destroyed resource and fails with
\* DestroyedBuffer or DestroyedTexture.
C20_DestroyedRejected ==
    [][/\ TransferCalled =>
              \A r \in Names(call') :
                  Destroyed(r) => /\ ~CopiesNaming(hal_calls', r)
                                  /\ ret'.kind \in {"InvalidBuffer", "InvalidTexture"}
       /\ SubmitRejectsDestroyed]_vars

\* C20: a copy-recording operation or queue write that names a destroyed
\* resource records no backend copy that names it, and fails with
\* InvalidBuffer or InvalidTexture when it gets to the check of its
\* resources; queue_submit passes no command buffer whose trackers reference
\* a destroyed resource and fails with DestroyedBuffer or DestroyedTexture,
\* also when the resource was destroyed after the recording.
C20_DestroyedNeverTransferred ==
    [][/\ TransferCalled =>
              \A r \in Names(call') :
                  Destroyed(r) => /\ ~CopiesNaming(hal_calls', r)
                                  /\ ~ret'.ok \/ ~ReachesCheck(call')
                                  /\ ReachesCheck(call')
                                        => ret'.kind \in {"InvalidBuffer", "InvalidTexture"}
       /\ SubmitRejectsDestroyed]_vars

\* The first queue_submit fails with DestroyedTexture on the command buffer E1
\* that recorded its copy from T0 into B1 while T0 was alive: no queue write
\* was made, so B1 carries the submission index because the command buffer
\* tracks it, and the copy tracks B1 only after T0 passed its check.
C20_Witness ==
    /\ call.op = "queue_submit"
    /\ call.command_buffer_ids = <<"E1">>
    /\ ret.kind = "DestroyedTexture"
    /\ ~textures["T0"].raw
    /\ queue.submissions = 0
    /\ device.staging_buffers = 0
    /\ buffers["B1"].raw
    /\ buffers["B1"].submission_index = device.active_submission_index
    /\ device.active_submission_index = 1

(***************************************************************************)
(* C21: the regions of the buffer-texture copies (specification SpecCopy). *)
(***************************************************************************)
\* A copy between a buffer and a texture has returned success and moved texels.
BufferTextureCopied ==
    /\ call.op \in {"copy_buffer_to_texture", "copy_texture_to_buffer"}
    /\ ret.ok
    /\ ~IsZeroCopy

\* The texture side and the buffer side of the call.
TextureSide == IF call.op = "copy_buffer_to_texture" THEN call.destination ELSE call.source

BufferSide == IF call.op = "copy_buffer_to_texture" THEN call.source ELSE call.destination

\* The regions of the backend copies the call made.
RegionLists == {hal_calls[i].items : i \in {j \in DOMAIN hal_calls : hal_calls[j].cmd = call.op}}

\* C21: a successful copy_buffer_to_texture or copy_texture_to_buffer emits
\* exactly layer_count regions, and region i (from 0) has the array layer
\* base.array_layer + i and the buffer offset layout.offset + i *
\* bytes_per_image, where layer_count and bytes_per_image are the values the
\* two validators return.
C21_RegionPerLayer ==
    BufferTextureCopied =>
        LET desc == textures[TextureSide.texture].desc
            side == IF call.op = "copy_buffer_to_texture" THEN "Destination" ELSE "Source"
            other == IF call.op = "copy_buffer_to_texture" THEN "Source" ELSE "Destination"
            base == extract_texture_selector(TextureSide, call.copy_size).val.base
            range == validate_texture_copy_range(TextureSide, desc, side, call.copy_size)
            linear == validate_linear_texture_data(BufferSide.layout, desc.format,
                                                   buffers[BufferSide.buffer].size, other,
                                                   describe(desc.format).block_size,
                                                   call.copy_size, TRUE)
        IN  /\ Cardinality(RegionLists) = 1
            /\ \A regions \in RegionLists :
                  /\ Len(regions) = range.val.array_layer_count
                  /\ \A i \in 0 .. range.val.array_layer_count - 1 :
                        /\ regions[i + 1].texture_base.array_layer = base.array_layer + i
                        /\ regions[i + 1].buffer_layout.offset =
                               BufferSide.layout.offset + i * linear.val.bytes_per_image

(***************************************************************************)
(* C22: the aspects of a texture-to-texture copy (specification SpecCopy). *)
(***************************************************************************)
TextureCopyDone == CopyDone /\ call.op = "copy_texture_to_texture"

\* format.aspects /\ requested aspect of an image copy view of a texture.
ResolvedAspect(view) ==
    FormatAspects(textures[view.texture].desc.format) \cap AspectMask(view.aspect)

\* Both textures exist and their resolved copy aspects differ.
AspectsDiffer ==
    /\ call.source.texture \in TextureIds
    /\ call.destination.texture \in TextureIds
    /\ ResolvedAspect(call.source) # ResolvedAspect(call.destination)

\* Nothing is recorded: no backend call, the command buffers as constructed.
NothingRecorded ==
    /\ hal_calls = <<>>
    /\ command_buffers = [e \in CommandBufferIds |->
                             CommandBuffer(IF e = "E0" THEN "Recording" ELSE "Finished")]

\* Every TextureCopy recorded has equal, non-empty aspect masks.
RecordedAspectsEqual ==
    \A i \in DOMAIN hal_calls :
        hal_calls[i].cmd = "copy_texture_to_texture" =>
            \A k \in DOMAIN hal_calls[i].items :
                /\ hal_calls[i].items[k].src_base.aspect = hal_calls[i].items[k].dst_base.aspect
                /\ hal_calls[i].items[k].src_base.aspect # {}

\* C22 as stated: copy_texture_to_texture fails with MismatchedAspects
\* whenever the resolved copy aspects of source and destination differ, and
\* then nothing is recorded; every TextureCopy it records has equal,
\* non-empty source and destination aspect masks.
C22_Original ==
    TextureCopyDone =>
        /\ AspectsDiffer => ret.kind = "MismatchedAspects" /\ NothingRecorded
        /\ RecordedAspectsEqual

(***************************************************************************)
(* C23, C24, C25: the queue helpers (specification SpecHelpers).           *)
(***************************************************************************)
Divides(d, n) == n % d = 0

\* C23: for all a >= b >= 1, get_greatest_common_divisor(a, b) returns the
\* greatest common divisor: the result divides a and b, and every common
\* divisor of a and b divides the result.
C23_GreatestCommonDivisor ==
    (call.op = "get_greatest_common_divisor" /\ ret # Pending /\ call.a >= call.b /\ call.b >= 1)
        => /\ ret.ok
           /\ ret.val >= 1
           /\ Divides(ret.val, call.a)
           /\ Divides(ret.val, call.b)
           /\ \A d \in 1 .. call.b : Divides(d, call.a) /\ Divides(d, call.b) => Divides(d, ret.val)

\* The divisor of 6 and 4, found in the second step of the loop, is 2; that of
\* 35 and 25, found in the third, is 5.
C23_Witness ==
    /\ call.op = "get_greatest_common_divisor"
    /\ call.a = 35 /\ call.b = 25
    /\ ret = Ok(5)

\* The mathematical greatest common divisor and least common multiple.
Gcd(a, b) == CHOOSE g \in 1 .. a : Divides(g, a) /\ Divides(g, b) /\ \A d \in (g + 1) .. a : ~(Divides(d, a) /\ Divides(d, b))

Lcm(a, b) == (a * b) \div Gcd(a, b)

\* C24: for all positive a and b, in either argument order,
\* get_lowest_common_denom(a, b) returns the least common multiple, the
\* integer with lcm * gcd = a * b, whenever that fits in 32 bits.
C24_LeastCommonMultiple ==
    (/\ call.op = "get_lowest_common_denom" /\ ret # Pending
     /\ call.a >= 1 /\ call.b >= 1 /\ Lcm(call.a, call.b) < U32Mod)
        => /\ ret.ok
           /\ ret.val = Lcm(call.a, call.b)
           /\ ret.val * Gcd(call.a, call.b) = call.a * call.b

\* C25: for all v >= 0 and a >= 1, align_to(v, a) is a multiple of a, is at
\* least v, is less than v + a, and equals v + ((a - v mod a) mod a).
C25_AlignTo ==
    (call.op = "align_to" /\ ret # Pending /\ call.b >= 1)
        => /\ ret.ok
           /\ ret.val % call.b = 0
           /\ ret.val >= call.a
           /\ ret.val - call.a < call.b
           /\ ret.val = call.a + ((call.b - (call.a % call.b)) % call.b)

\* The aligned value as a mathematical integer.
AlignedUp(v, a) == v + ((a - (v % a)) % a)

\* C25 (amended): for all v >= 0 and a >= 1 whose aligned value
\* v + ((a - v mod a) mod a) is within 32-bit range, align_to(v, a) returns
\* that value: a multiple of a, at least v, and less than v + a.
C25_AlignToInRange ==
    (call.op = "align_to" /\ ret # Pending /\ call.b >= 1 /\ AlignedUp(call.a, call.b) < U32Mod)
        => /\ ret.ok
           /\ ret.val % call.b = 0
           /\ ret.val >= call.a
           /\ ret.val - call.a < call.b
           /\ ret.val = AlignedUp(call.a, call.b)

\* 5 aligned to 4 is 8.
C25_Witness ==
    /\ call.op = "align_to"
    /\ call.a = 5 /\ call.b = 4
    /\ ret = Ok(8)

(***************************************************************************)
(* C26: the order of the checks of validate_linear_texture_data            *)
(* (specification SpecLinear).                                             *)
(***************************************************************************)
\* required_bytes_in_copy as a mathematical integer.
LinRequiredBytes ==
    IF LinNonZero
    THEN LinBytesPerRow * LinRowsPerImage * (LinCopyDepth - 1)
         + LinBytesPerRow * (LinHeightInBlocks - 1) + LinBytesPerBlock * LinWidthInBlocks
    ELSE 0

\* The violations the claim lists, in its order, each with its condition.
LinViolations ==
    << [kind |-> "UnspecifiedBytesPerRow",
        holds |-> LinBprAbsent /\ (LinCopyDepth > 1 \/ LinHeightInBlocks > 1)],
       [kind |-> "UnspecifiedRowsPerImage", holds |-> LinRpiAbsent /\ LinCopyDepth > 1],
       [kind |-> "UnalignedCopyWidth", holds |-> call.copy_size.width % LinBlockWidth # 0],
       [kind |-> "UnalignedCopyHeight", holds |-> call.copy_size.height % LinBlockHeight # 0],
       [kind |-> "UnalignedBytesPerRow",
        holds |-> /\ call.need_copy_aligned_rows
                  /\ \/ COPY_BYTES_PER_ROW_ALIGNMENT % LinBytesPerBlock # 0
                     \/ LinBytesPerRow % COPY_BYTES_PER_ROW_ALIGNMENT # 0],
       [kind |-> "InvalidRowsPerImage",
        holds |-> LinRowsPerImage * LinBlockHeight < call.copy_size.height],
       [kind |-> "BufferOverrun",
        holds |-> call.layout.offset + LinRequiredBytes > call.buffer_size],
       [kind |-> "UnalignedBufferOffset", holds |-> call.layout.offset % LinBytesPerBlock # 0],
       [kind |-> "InvalidBytesPerRow",
        holds |-> /\ call.copy_size.height > 1
                  /\ LinBytesPerRow < LinBytesPerBlock * LinWidthInBlocks] >>

LinHolding == {i \in DOMAIN LinViolations : LinViolations[i].holds}

LinFirstViolation ==
    IF LinHolding = {} THEN "Ok"
    ELSE LinViolations[CHOOSE i \in LinHolding : \A j \in LinHolding : i <= j].kind

\* C26: validate_linear_texture_data reports the first violation, in the order
\* UnspecifiedBytesPerRow, UnspecifiedRowsPerImage, UnalignedCopyWidth,
\* UnalignedCopyHeight, UnalignedBytesPerRow (only with need_row_alignment),
\* InvalidRowsPerImage, BufferOverrun{side}, UnalignedBufferOffset,
\* InvalidBytesPerRow, and succeeds when none holds.
C26_FirstViolationInOrder ==
    LinearDone =>
        /\ ret.kind = LinFirstViolation
        /\ ret.kind = "BufferOverrun" => ret.info.side = call.buffer_side

(***************************************************************************)
(* C27: the order of the checks of copy_buffer_to_buffer (specification    *)
(* SpecCopy).                                                              *)
(***************************************************************************)
BufferCopyReturned == call.op = "copy_buffer_to_buffer" /\ ret # Pending

\* A buffer id that names no buffer, or a buffer whose backend handle is gone.
BufferInvalid(id) == id \notin BufferIds \/ ~buffers[id].raw

\* The buffer an id names; an id that names none is caught as InvalidBuffer
\* before its size or usage is looked at.
BufferNamed(id) == IF id \in BufferIds THEN buffers[id] ELSE [size |-> 0, usage |-> {}]

\* The violations the claim lists, in its order; each takes for granted that
\* the ones before it do not hold.
B2BViolations ==
    << [result |-> Err("SameSourceDestinationBuffer"),
        holds |-> call.source = call.destination],
       [result |-> get_encoder_mut(call.command_encoder_id),
        holds |-> \/ call.command_encoder_id \notin CommandBufferIds
                  \/ command_buffers[call.command_encoder_id].status # "Recording"],
       [result |-> ErrI("InvalidBuffer", [id |-> call.source]),
        holds |-> BufferInvalid(call.source)],
       [result |-> Err("MissingCopySrcUsageFlag"),
        holds |-> "COPY_SRC" \notin BufferNamed(call.source).usage],
       [result |-> ErrI("InvalidBuffer", [id |-> call.destination]),
        holds |-> BufferInvalid(call.destination)],
       [result |-> ErrI("MissingCopyDstUsageFlag", [buffer |-> call.destination, texture |-> ""]),
        holds |-> "COPY_DST" \notin BufferNamed(call.destination).usage],
       [result |-> ErrI("UnalignedCopySize", [size |-> call.size]),
        holds |-> call.size % COPY_BUFFER_ALIGNMENT # 0],
       [result |-> ErrI("UnalignedBufferOffset", [offset |-> call.source_offset]),
        holds |-> call.source_offset % COPY_BUFFER_ALIGNMENT # 0],
       [result |-> ErrI("UnalignedBufferOffset", [offset |-> call.destination_offset]),
        holds |-> call.destination_offset % COPY_BUFFER_ALIGNMENT # 0],
       [result |-> ErrI("BufferOverrun",
                        [start_offset |-> call.source_offset,
                         end_offset |-> call.source_offset + call.size,
                         buffer_size |-> BufferNamed(call.source).size, side |-> "Source"]),
        holds |-> call.source_offset + call.size > BufferNamed(call.source).size],
       [result |-> ErrI("BufferOverrun",
                        [start_offset |-> call.destination_offset,
                         end_offset |-> call.destination_offset + call.size,
                         buffer_size |-> BufferNamed(call.destination).size,
                         side |-> "Destination"]),
        holds |-> call.destination_offset + call.size > BufferNamed(call.destination).size] >>

RECURSIVE FirstHolding(_, _)
FirstHolding(violations, i) ==
    IF i > Len(violations) THEN 0
    ELSE IF violations[i].holds THEN i
    ELSE FirstHolding(violations, i + 1)

\* C27: copy_buffer_to_buffer reports the first violation in the order
\* SameSourceDestinationBuffer, CommandEncoderError, InvalidBuffer(src),
\* MissingCopySrcUsageFlag, InvalidBuffer(dst), MissingCopyDstUsageFlag,
\* UnalignedCopySize, UnalignedBufferOffset(src_off),
\* UnalignedBufferOffset(dst_off), BufferOverrun{Source},
\* BufferOverrun{Destination}, and succeeds when none holds.
C27_FirstViolationInOrder ==
    BufferCopyReturned =>
        LET first == FirstHolding(B2BViolations, 1)
        IN  IF first = 0 THEN ret.ok ELSE ret = B2BViolations[first].result

(***************************************************************************)
(* C28: depth and layer count of validate_texture_copy_range               *)
(* (specification SpecRange).                                              *)
(***************************************************************************)
\* C28: on success validate_texture_copy_range returns depth = 1 and
\* layer_count = copy_size.depth_or_array_layers for 1D and 2D textures, and
\* depth = min(copy_size.depth_or_array_layers, virtual depth) and
\* layer_count = 1 for 3D textures; it fails with InvalidTextureMipLevel
\* exactly when mip_level >= desc.mip_level_count.
C28_DepthAndLayerCount ==
    RangeDone =>
        /\ (ret.ok /\ call.desc.dimension \in {"D1", "D2"}) =>
               /\ ret.val.copy_extent.depth = 1
               /\ ret.val.array_layer_count = call.copy_size.depth_or_array_layers
        /\ (ret.ok /\ call.desc.dimension = "D3") =>
               /\ ret.val.copy_extent.depth =
                      Min(call.copy_size.depth_or_array_layers, RangeVirtual.depth_or_array_layers)
               /\ ret.val.array_layer_count = 1
        /\ ret.kind = "InvalidTextureMipLevel"
              <=> call.view.mip_level >= call.desc.mip_level_count

\* A copy of two slices of the 3D texture passes with depth 2 and one layer.
C28_Witness ==
    /\ RangeDone /\ ret.ok
    /\ call.desc.dimension = "D3"
    /\ call.copy_size.depth_or_array_layers = 2
    /\ ret.val.copy_extent.depth = 2
    /\ ret.val.array_layer_count = 1

(***************************************************************************)
(* C29: the selector and base of extract_texture_selector (specification   *)
(* SpecHelpers).                                                           *)
(***************************************************************************)
SelectorDone ==
    /\ call.op = "extract_texture_selector" /\ ret # Pending
    /\ call.copy_texture.texture \in TextureIds

SelectorDimension == textures[call.copy_texture.texture].desc.dimension

\* C29: on success extract_texture_selector returns the mip range
\* [mip_level, mip_level + 1); for 1D and 2D textures the layer range
\* [origin.z, origin.z + depth_or_array_layers), base origin.z = 0 and base
\* array_layer = origin.z; for 3D textures the layer range [0, 1), the base
\* origin.z kept and base array_layer = 0.  It fails with
\* InvalidTextureAspect exactly when the format's aspects and the requested
\* aspect have nothing in common.
C29_SelectorAndBase ==
    SelectorDone =>
        /\ ret.ok =>
              /\ ret.val.selector.levels
                    = <<call.copy_texture.mip_level, call.copy_texture.mip_level + 1>>
              /\ SelectorDimension \in {"D1", "D2"} =>
                    /\ ret.val.selector.layers
                          = <<call.copy_texture.origin.z,
                              call.copy_texture.origin.z + call.copy_size.depth_or_array_layers>>
                    /\ ret.val.base.origin.z = 0
                    /\ ret.val.base.array_layer = call.copy_texture.origin.z
              /\ SelectorDimension = "D3" =>
                    /\ ret.val.selector.layers = <<0, 1>>
                    /\ ret.val.base.origin.z = call.copy_texture.origin.z
                    /\ ret.val.base.array_layer = 0
        /\ ret.kind = "InvalidTextureAspect"
              <=> FormatAspects(textures[call.copy_texture.texture].desc.format)
                    \cap AspectMask(call.copy_texture.aspect) = {}

(***************************************************************************)
(* C30: the memory-init actions a copy appends (specification SpecAlign).  *)
(***************************************************************************)
\* The buffer ranges a copy touches, each with the kind of its action.
TouchedRange(id, start, end, kind) == [id |-> id, start |-> start, end |-> end, kind |-> kind]

ImageRequiredBytes(c, buffer_view, texture_view) ==
    LET desc == textures[texture_view.texture].desc
    IN  validate_linear_texture_data(buffer_view.layout, desc.format,
                                     buffers[buffer_view.buffer].size, "Source",
                                     describe(desc.format).block_size, c.copy_size,
                                     TRUE).val.required_bytes

Touched(c) ==
    CASE c.op = "copy_buffer_to_buffer" ->
           {TouchedRange(c.source, c.source_offset, c.source_offset + c.size,
                         "NeedsInitializedMemory"),
            TouchedRange(c.destination, c.destination_offset, c.destination_offset + c.size,
                         "ImplicitlyInitialized")}
      [] c.op = "copy_buffer_to_texture" ->
           {TouchedRange(c.source.buffer, c.source.layout.offset,
                         c.source.layout.offset + ImageRequiredBytes(c, c.source, c.destination),
                         "NeedsInitializedMemory")}
      [] c.op = "copy_texture_to_buffer" ->
           {TouchedRange(c.destination.buffer, c.destination.layout.offset,
                         c.destination.layout.offset
                            + ImageRequiredBytes(c, c.destination, c.source),
                         "ImplicitlyInitialized")}
      [] OTHER -> {}

\* The bytes of a buffer that are not initialized yet.
UninitBytes(id) ==
    UNION {buffers[id].initialization_status[i][1] .. (buffers[id].initialization_status[i][2] - 1) :
              i \in DOMAIN buffers[id].initialization_status}

\* The bytes the actions of one buffer and kind cover.
ActionBytes(actions, id, kind) ==
    UNION {actions[i].range[1] .. (actions[i].range[2] - 1) :
              i \in {k \in DOMAIN actions : actions[k].id = id /\ actions[k].kind = kind}}

\* C30: each successful non-zero copy appends to the command buffer's
\* buffer_memory_init_actions exactly the still-uninitialized sub-ranges of
\* the buffer ranges it touches, the source range as NeedsInitializedMemory
\* and the destination range as ImplicitlyInitialized; it appends no action
\* for a range that is initialized already.
C30_InitActionsAppended ==
    [][(/\ ret = Pending /\ ret' # Pending /\ ret'.ok
        /\ call'.op \in {"copy_buffer_to_buffer", "copy_buffer_to_texture",
                          "copy_texture_to_buffer", "copy_texture_to_texture"}
        /\ ~IsZeroCopy')
       => LET old == command_buffers[call'.command_encoder_id].buffer_memory_init_actions
              new == command_buffers'[call'.command_encoder_id].buffer_memory_init_actions
              appended == SubSeq(new, Len(old) + 1, Len(new))
          IN  /\ Len(new) >= Len(old)
              /\ SubSeq(new, 1, Len(old)) = old
              /\ \A i \in DOMAIN appended :
                    /\ appended[i].range[1] < appended[i].range[2]
                    /\ \A j \in DOMAIN appended : appended[i] = appended[j] => i = j
                    /\ \E t \in Touched(call') :
                          /\ t.id = appended[i].id /\ t.kind = appended[i].kind
                          /\ appended[i].range[1] .. (appended[i].range[2] - 1)
                                \subseteq (t.start .. (t.end - 1)) \cap UninitBytes(t.id)
              /\ \A t \in Touched(call') :
                    ActionBytes(appended, t.id, t.kind)
                        = (t.start .. (t.end - 1)) \cap UninitBytes(t.id)]_vars

\* Bytes 1 .. 4 of B0 are copied to the texture after a queued write has
\* initialized bytes 0 .. 3: the action names byte 4 only.
C30_Witness ==
    /\ call.op = "copy_buffer_to_texture" /\ ret.ok
    /\ call.source.layout.offset = 1 /\ call.copy_size.width = 4
    /\ buffers["B0"].initialization_status # <<>>
    /\ buffers["B0"].initialization_status[1][1] = 4
    /\ LET actions == command_buffers["E0"].buffer_memory_init_actions
       IN  /\ actions # <<>>
           /\ actions[Len(actions)]
                 = [id |-> "B0", range |-> <<4, 5>>, kind |-> "NeedsInitializedMemory"]

(***************************************************************************)
(* C31: the fold of the memory-init actions at queue_submit (specification *)
(* SpecStitch).                                                            *)
(***************************************************************************)
\* The memory-init actions of the finished command buffers among ids, in the
\* order queue_submit folds them.
RECURSIVE FoldedActions(_)
FoldedActions(ids) ==
    IF ids = <<>> THEN <<>>
    ELSE (IF command_buffers[Head(ids)].status = "Finished"
          THEN command_buffers[Head(ids)].buffer_memory_init_actions
          ELSE <<>>) \o FoldedActions(Tail(ids))

\* The positions of the actions that cover a byte of a buffer.
Covering(actions, id, byte) ==
    {k \in DOMAIN actions : /\ actions[k].id = id
                            /\ actions[k].range[1] <= byte /\ byte < actions[k].range[2]}

\* The kind of the first action that covers the byte.
FirstKind(actions, id, byte) ==
    actions[CHOOSE k \in Covering(actions, id, byte) :
                \A j \in Covering(actions, id, byte) : k <= j].kind

\* The bytes the zero-fills of a list of backend calls cover in a buffer.
FilledBytes(calls, id) ==
    UNION {calls[k].items[1][1] .. (calls[k].items[1][2] - 1) :
              k \in {i \in DOMAIN calls : calls[i].cmd = "fill_buffer" /\ calls[i].dst = id}}

\* C31: at queue_submit an ImplicitlyInitialized action removes its range
\* from the buffer's uninitialized set without a zero-fill, a
\* NeedsInitializedMemory action removes it and gathers what was still
\* uninitialized for a zero-fill; the ranges gathered for one buffer are
\* pairwise non-overlapping, so that the assertion of
\* initialize_buffer_memory holds.
C31_GatheredRangesDisjoint ==
    [][SubmitCalled =>
          LET actions == FoldedActions(call'.command_buffer_ids)
              fills == FillCallsIn(hal_calls')
          IN  /\ ret' # Panic
              /\ \A b \in BufferIds :
                    /\ UninitBytes(b)'
                          = {byte \in UninitBytes(b) : Covering(actions, b, byte) = {}}
                    /\ FilledBytes(hal_calls', b)
                          = {byte \in UninitBytes(b) :
                                /\ Covering(actions, b, byte) # {}
                                /\ FirstKind(actions, b, byte) = "NeedsInitializedMemory"}
              /\ \A i, j \in DOMAIN fills :
                    (i # j /\ fills[i].dst = fills[j].dst) =>
                        \/ fills[i].items[1][2] <= fills[j].items[1][1]
                        \/ fills[j].items[1][2] <= fills[i].items[1][1]]_vars

\* Two copies that read bytes 0 .. 7 and 4 .. 11 of B0 and write bytes of B1
\* were submitted: bytes 0 .. 11 of B0 are zero-filled once, B1 is not
\* filled, and the bytes written have left B1's uninitialized set.
C31_Witness ==
    /\ call.op = "queue_submit" /\ ret = Ok(NoVal)
    /\ Len(FillCallsIn(hal_calls)) = 1
    /\ FillCallsIn(hal_calls)[1].dst = "B0"
    /\ FillCallsIn(hal_calls)[1].items[1] = <<0, 12>>
    /\ buffers["B0"].initialization_status = <<<<12, 512>>>>
    /\ buffers["B1"].initialization_status = <<<<8, 16>>>>

(***************************************************************************)
(* C32: the sort-and-coalesce pass of initialize_buffer_memory             *)
(* (specification SpecHelpers).                                            *)
(***************************************************************************)
RangeBytes(ranges) == UNION {ranges[i][1] .. (ranges[i][2] - 1) : i \in DOMAIN ranges}

\* C32: for every list of pairwise non-overlapping ranges of one buffer the
\* ranges passed to fill_buffer cover exactly the bytes of the list, and no
\* two of them overlap or touch.
C32_CoalescePreservesUnion ==
    (call.op = "initialize_buffer_memory" /\ ret # Pending /\ NonOverlapping(call.ranges))
        => /\ ret.ok
           /\ RangeBytes(ret.val) = RangeBytes(call.ranges)
           /\ \A i \in DOMAIN ret.val : ret.val[i][1] < ret.val[i][2]
           /\ \A i, j \in DOMAIN ret.val :
                 i # j => ret.val[i][2] < ret.val[j][1] \/ ret.val[j][2] < ret.val[i][1]

\* Two runs of two touching ranges each, given out of order, leave two ranges.
C32_Witness ==
    /\ call.op = "initialize_buffer_memory"
    /\ call.ranges = << <<3, 4>>, <<0, 1>>, <<2, 3>>, <<1, 2>> >>
    /\ ret = Ok(<< <<0, 4>> >>)

(***************************************************************************)
(* C33, C34, C35: the staging buffer of queue_write_texture (specification *)
(* SpecStage).                                                             *)
(***************************************************************************)
WriteTextureDone == call.op = "queue_write_texture" /\ ret # Pending

\* The call got as far as creating its staging buffer.
StageCreated == \E k \in DOMAIN hal_calls : hal_calls[k].cmd = "create_buffer"

StageCreatedSize ==
    hal_calls[CHOOSE k \in DOMAIN hal_calls : hal_calls[k].cmd = "create_buffer"].items[1]

\* The quantities of the write as the claims name them, as mathematical
\* integers.
WtFormat == textures[call.destination.texture].desc.format
WtBytesPerBlock == describe(WtFormat).block_size
WtWidthInBlocks == call.size.width \div describe(WtFormat).block_dimensions[1]
WtHeightInBlocks == call.size.height \div describe(WtFormat).block_dimensions[2]
WtDepth == call.size.depth_or_array_layers

\* block_rows_per_image as validate_linear_texture_data resolves it.
WtBlockRowsPerImage ==
    IF IsSome(call.data_layout.rows_per_image) THEN call.data_layout.rows_per_image
    ELSE WtHeightInBlocks

WtBytesPerRow ==
    IF IsSome(call.data_layout.bytes_per_row) THEN call.data_layout.bytes_per_row
    ELSE WtBytesPerBlock * WtWidthInBlocks

WtRowAlignment == Lcm(device.alignments.buffer_copy_pitch, WtBytesPerBlock)

\* The smallest multiple of the row alignment that holds a row of the copy.
WtStageBytesPerRow ==
    ((WtBytesPerBlock * WtWidthInBlocks + WtRowAlignment - 1) \div WtRowAlignment)
        * WtRowAlignment

WtStageSize == WtStageBytesPerRow * ((WtDepth - 1) * WtBlockRowsPerImage + WtHeightInBlocks)

\* The regions of the copy out of the staging buffer.
StageCopyRegions ==
    hal_calls[CHOOSE k \in DOMAIN hal_calls :
                  hal_calls[k].cmd = "copy_buffer_to_texture"].items

\* C33: the staging buffer of write_texture has
\* stage_bytes_per_row * ((depth_or_array_layers - 1) * block_rows_per_image
\* + height_in_blocks) bytes, where stage_bytes_per_row, the row pitch of the
\* copy out of it, is the smallest multiple of
\* lcm(buffer_copy_pitch_alignment, bytes_per_block) that is
\* >= bytes_per_block * width_in_blocks.
C33_StagingGeometry ==
    (WriteTextureDone /\ StageCreated) =>
        /\ StageCreatedSize = WtStageSize
        /\ ret.ok => \A i \in DOMAIN StageCopyRegions :
                         StageCopyRegions[i].buffer_layout.bytes_per_row = WtStageBytesPerRow

\* The copies of host data into the mapping of the staging buffer.
StageHostCopies ==
    hal_calls[CHOOSE k \in DOMAIN hal_calls : hal_calls[k].cmd = "map_buffer"].items

\* C34: a write_texture that passed validation against data.len() reads
\* every byte inside [0, data.len()) of the host slice and writes every byte
\* inside [0, stage_size) of the mapping, on the bulk path and on the
\* row-by-row path.
C34_StagingCopyInBounds ==
    (WriteTextureDone /\ ret.ok /\ StageCreated) =>
        \A i \in DOMAIN StageHostCopies :
            StageHostCopies[i].len > 0 =>
                /\ StageHostCopies[i].src + StageHostCopies[i].len <= call.data_len
                /\ StageHostCopies[i].dst + StageHostCopies[i].len <= StageCreatedSize

\* The offset in the staging buffer at which row 0 of layer i (from 0) was
\* written: the bulk path copies the data as it lies, a layer every
\* bytes_per_row * block_rows_per_image bytes; the row-by-row path places
\* each row itself.
LayerStagingOffset(i) ==
    IF WtBytesPerRow = StageCopyRegions[1].buffer_layout.bytes_per_row
    THEN i * WtBlockRowsPerImage * WtBytesPerRow
    ELSE StageHostCopies[i * WtHeightInBlocks + 1].dst

\* C35: the region of layer i of a write_texture reads the staging buffer
\* from the offset at which row 0 of layer i was written, which is
\* i * block_rows_per_image * stage_bytes_per_row, and its rows_per_image is
\* the block_rows_per_image of the fill and of the validation.
C35_LayerAddressing ==
    (WriteTextureDone /\ ret.ok /\ StageCreated) =>
        \A i \in DOMAIN StageCopyRegions :
            LET layout == StageCopyRegions[i].buffer_layout
            IN  /\ layout.offset = LayerStagingOffset(i - 1)
                /\ layout.offset = (i - 1) * WtBlockRowsPerImage * layout.bytes_per_row
                /\ layout.rows_per_image = WtBlockRowsPerImage

(***************************************************************************)
(* C36: the life-guard index of queued writes (specification Spec).        *)
(***************************************************************************)
\* The destinations of the write copies recorded on the pending-writes
\* encoder.
PendingWriteBuffers ==
    {device.pending_writes.commands[k].dst :
        k \in {j \in DOMAIN device.pending_writes.commands :
                  device.pending_writes.commands[j].cmd = "copy_buffer_to_buffer"}}

PendingWriteTextures ==
    {device.pending_writes.commands[k].dst :
        k \in {j \in DOMAIN device.pending_writes.commands :
                  device.pending_writes.commands[j].cmd = "copy_buffer_to_texture"}}

\* This step is a queue_submit that gets as far as the backend queue.submit,
\* which succeeds or fails.
SubmitReached ==
    /\ SubmitCalled
    /\ \/ SubmitCallsIn(hal_calls') # <<>>
       \/ call'.backend_fault = "submit" /\ ret' = DeviceError("Lost")

\* C36: when the pending-writes command buffer is handed to queue.submit
\* with index S, the life guard of every destination of a write it holds
\* carries an index >= S.
C36_LifeGuardCoversSubmit ==
    [][(SubmitReached /\ device.pending_writes.is_active) =>
           /\ \A b \in PendingWriteBuffers :
                  buffers[b].submission_index >= device'.active_submission_index
           /\ \A t \in PendingWriteTextures :
                  textures[t].submission_index >= device'.active_submission_index]_vars

(***************************************************************************)
(* C37: no queued write is lost (specification SpecFair).                  *)
(***************************************************************************)
\* A write has returned success with its copy recorded on the pending-writes
\* encoder.
WriteQueued ==
    /\ call.op \in {"queue_write_buffer", "queue_write_texture"}
    /\ ret.ok
    /\ \E k \in DOMAIN hal_calls :
           hal_calls[k].cmd \in {"copy_buffer_to_buffer", "copy_buffer_to_texture"}

\* A queue_submit has returned success.
SubmitSucceeded == call.op = "queue_submit" /\ ret.ok

\* A queue_submit has handed to the backend queue.submit, which took it, a
\* pending-writes command buffer that was recording before the call: the
\* one that holds the copies of the writes queued since the encoder began.
QueuedWritesSubmitted ==
    /\ SubmitSucceeded
    /\ \A k \in DOMAIN hal_calls :
           ~(hal_calls[k].cmd = "begin_encoding" /\ hal_calls[k].src = "_PendingWrites")
    /\ \E k \in DOMAIN hal_calls :
           /\ hal_calls[k].cmd = "submit"
           /\ Len(hal_calls[k].items[1]) > 0
           /\ hal_calls[k].items[1][1] = "_PendingWrites"

\* C37: after a write that returned success, if queue_submit is called until
\* one returns success, the backend queue.submit takes the command buffer
\* that holds the write's copy; a failing queue.submit in between does not
\* leave it unsubmitted for ever.
C37_NoWriteLost ==
    [](WriteQueued => (<>SubmitSucceeded => <>QueuedWritesSubmitted))

(***************************************************************************)
(* C38: the state of the pending-writes encoder (specification SpecPool).  *)
(***************************************************************************)
\* The call begins the encoding of the pending-writes encoder.
BeginsPendingWrites(h) == h.cmd = "begin_encoding" /\ h.src = "_PendingWrites"

\* The pending-writes encoder is recording: its encoding was begun and has
\* not been ended; the commands encoded since are kept with it.
PendingRecording(pending_writes) == pending_writes.commands # <<>>

\* The encoding was begun once, before its first command, and not ended.
BegunOnce(pending_writes) ==
    \A k \in DOMAIN pending_writes.commands :
        /\ BeginsPendingWrites(pending_writes.commands[k]) <=> k = 1
        /\ pending_writes.commands[k].cmd # "end_encoding"

DrainedForRead(b) ==
    {byte \in UninitBytes(b) \ UninitBytes(b)' :
        /\ Covering(FoldedActions(call'.command_buffer_ids), b, byte) # {}
        /\ FirstKind(FoldedActions(call'.command_buffer_ids), b, byte)
              = "NeedsInitializedMemory"}

\* C39: every byte that a queue_submit takes out of a buffer's uninitialized
\* set for a NeedsInitializedMemory action is zero-filled by a fill_buffer
\* on the pending-writes encoder, whose command buffer that same call hands
\* to the backend queue.submit ahead of the command buffers that read the
\* byte, whatever the call returns.
C39_ZeroFillNotLost ==
    [][SubmitCalled =>
          \A b \in BufferIds :
              DrainedForRead(b) # {} =>
                  /\ DrainedForRead(b) \subseteq FilledBytes(hal_calls', b)
                  /\ \E k \in DOMAIN hal_calls' :
                         /\ hal_calls'[k].cmd = "submit"
                         /\ Len(hal_calls'[k].items[1]) > 0
                         /\ hal_calls'[k].items[1][1] = "_PendingWrites"]_vars

(***************************************************************************)
(* C40: what queue_submit does with the command-buffer ids (specification  *)
(* SpecStitch).                                                            *)
(***************************************************************************)
\* The labels of the command buffers the operation handed to queue.submit.
SubmittedLabels(calls) ==
    UNION {{calls[k].items[1][i] : i \in DOMAIN calls[k].items[1]} :
              k \in {j \in DOMAIN calls : calls[j].cmd = "submit"}}

\* The number of transit command buffers among them.
TransitCount(calls) ==
    Cardinality({<<k, i>> \in (DOMAIN calls) \X (1 .. 8) :
                    /\ calls[k].cmd = "submit"
                    /\ i \in DOMAIN calls[k].items[1]
                    /\ calls[k].items[1][i] = "_Transit"})

\* The command buffer is registered and still recording.
Unfinished(id) == command_buffers[id].status \notin {"Vacant", "Finished"}

\* C40: queue_submit takes every command buffer it gets to out of the
\* registry, all of them when it returns success. A command buffer that is
\* not finished is destroyed and skipped: no transit command buffer and none
\* of its own reach queue.submit, its memory-init actions leave the
\* uninitialized sets of the buffers alone, and the ids after it are
\* processed all the same.
C40_SubmitConsumesIds ==
    [][SubmitCalled =>
          LET ids == call'.command_buffer_ids
          IN  /\ ret'.ok => \A k \in DOMAIN ids : command_buffers'[ids[k]].status = "Vacant"
              /\ \A k \in DOMAIN ids :
                     \/ command_buffers'[ids[k]].status = "Vacant"
                     \/ /\ ~ret'.ok
                        /\ \A j \in k .. Len(ids) :
                               command_buffers'[ids[j]] = command_buffers[ids[j]]
              /\ \A k \in DOMAIN ids :
                     (Unfinished(ids[k]) /\ command_buffers'[ids[k]].status = "Vacant") =>
                         /\ \E h \in DOMAIN hal_calls' :
                                /\ hal_calls'[h].cmd = "destroy_command_encoder"
                                /\ hal_calls'[h].src = ids[k]
                         /\ ids[k] \notin SubmittedLabels(hal_calls')
              /\ ret'.ok =>
                     /\ TransitCount(hal_calls')
                            = Cardinality({id \in CommandBufferIds :
                                              /\ \E k \in DOMAIN ids : ids[k] = id
                                              /\ command_buffers[id].status = "Finished"})
                     /\ \A k \in DOMAIN ids :
                            (command_buffers[ids[k]].status = "Finished"
                             /\ command_buffers[ids[k]].list # <<>>) =>
                                ids[k] \in SubmittedLabels(hal_calls')
              /\ \A b \in BufferIds :
                     \A byte \in UninitBytes(b) :
                         Covering(FoldedActions(ids), b, byte) = {} => byte \in UninitBytes(b)']_vars

\* queue_submit([E0, E1]) with E0 still recording and E1 finished: E0 was
\* destroyed and is gone from the registry, E1 after it was submitted behind
\* its transit command buffer, and of B0 only the bytes E1 reads were taken
\* out of the uninitialized set.
C40_Witness ==
    /\ call.op = "queue_submit" /\ ret = Ok(NoVal)
    /\ call.command_buffer_ids = <<"E0", "E1">>
    /\ command_buffers["E0"].status = "Vacant"
    /\ command_buffers["E1"].status = "Vacant"
    /\ \E h \in DOMAIN hal_calls :
           hal_calls[h].cmd = "destroy_command_encoder" /\ hal_calls[h].src = "E0"
    /\ SubmittedLabels(hal_calls) = {"_PendingWrites", "_Transit", "E1"}
    /\ TransitCount(hal_calls) = 1
    /\ buffers["B0"].initialization_status = <<<<4, 512>>>>

====
